---- MODULE Spec2Model ----
(***************************************************************************)
(* Model of the mosaic image editor: HistoryManager (historyManager.js),   *)
(* SelectionManager (selectionManager.js), ImageProcessor and MosaicApp    *)
(* (app.js).                                                               *)
(*                                                                         *)
(* ImageData objects are JavaScript objects with identity: the model keeps *)
(* them in a heap (address -> raster) so that aliasing between a stored    *)
(* snapshot and a raster held by a caller is something a check can find.   *)
(* The canvas backing store is held by value: getImageData / putImageData  *)
(* copy pixels in and out of it.                                           *)
(***************************************************************************)
EXTENDS Integers, Sequences, FiniteSets, TLC

\* ------------------------------------------------------------------ bounds
\* Largest maxHistorySize a HistoryManager is constructed with in SpecHM.
MaxN == 2
\* Largest keepCount handed to optimize() is MaxN + MaxKeepExtra.
MaxKeepExtra == 1
\* The capacity MosaicApp gives its HistoryManager (CONFIG.history.maxStates,
\* 10 as shipped; the manager takes it as a constructor parameter).
AppMaxStates == 2
\* Size of the images loaded in Spec.
ImageW == 6
ImageH == 6
\* Number of mosaic passes Spec lets a user start.
MaxPasses == 2
\* The capacity of the HistoryManager in SpecDoc.
DocMaxStates == 3

\* The null reference (addresses start at 1).
NULL == 0

\* ------------------------------------------------------------------ rasters
\* An ImageData: width, height and the flat RGBA buffer, indexed from 0 as in
\* the code ((y * width + x) * 4 + channel).
Raster(w, h, d) == [width |-> w, height |-> h, data |-> d]
\* The content of a heap cell that holds no object.
Free == Raster(0, 0, <<>>)

\* The rasters a caller of the HistoryManager passes in SpecHM: 1 x 1 images.
HMRaster(v) == Raster(1, 1, [i \in 0..3 |-> IF i = 3 THEN 255 ELSE v])
HMRasters == {HMRaster(10), HMRaster(200)}
HMActionNames == {"Mosaic Applied", "Reset to Original"}

\* ------------------------------------------------------------------ ImageProcessor
\* Math.round(sum / count) for sum >= 0, count > 0: halves round up.
RoundDiv(sum, count) == (2 * sum + count) \div (2 * count)

Min(a, b) == IF a < b THEN a ELSE b
Max(a, b) == IF a > b THEN a ELSE b
Abs(a) == IF a < 0 THEN -a ELSE a

\* Whether pixel (x, y) lies in the block at (startX, startY), clipped to the
\* image (endX = Math.min(startX + blockSize, width), likewise endY).
InBlock(x, y, startX, startY, blockSize, width, height) ==
    /\ startX <= x /\ x < Min(startX + blockSize, width)
    /\ startY <= y /\ y < Min(startY + blockSize, height)

RECURSIVE SumLoop(_, _, _, _, _, _, _, _)
\* The two nested for loops of _calculateAverageColor from pixel (x, y) on:
\* what they add to the running sum of channel c.
SumLoop(data, x, y, startX, endX, endY, width, c) ==
    IF y >= endY THEN 0
    ELSE IF x >= endX
         THEN SumLoop(data, startX, y + 1, startX, endX, endY, width, c)
         ELSE data[(y * width + x) * 4 + c]
              + SumLoop(data, x + 1, y, startX, endX, endY, width, c)

RECURSIVE ChannelSum(_, _, _)
\* The sum of channel c of a raster over a set of pixels.
ChannelSum(raster, pixels, c) ==
    IF pixels = {} THEN 0
    ELSE LET q == CHOOSE r \in pixels : TRUE
         IN  raster.data[(q[2] * raster.width + q[1]) * 4 + c]
             + ChannelSum(raster, pixels \ {q}, c)

\* A _calculateAverageColor that divides by the area of an unclipped block.
_calculateAverageColor_fullCount(data, startX, startY, blockSize, width, height) ==
    LET endX  == Min(startX + blockSize, width)
        endY  == Min(startY + blockSize, height)
        count == blockSize * blockSize
    IN  [r |-> RoundDiv(SumLoop(data, startX, startY, startX, endX, endY, width, 0), count),
         g |-> RoundDiv(SumLoop(data, startX, startY, startX, endX, endY, width, 1), count),
         b |-> RoundDiv(SumLoop(data, startX, startY, startX, endX, endY, width, 2), count)]

\* part_001:301 - count is the number of pixels the loops visit.
_calculateAverageColor(data, startX, startY, blockSize, width, height) ==
    LET endX  == Min(startX + blockSize, width)
        endY  == Min(startY + blockSize, height)
        count == (endX - startX) * (endY - startY)
    IN  [r |-> RoundDiv(SumLoop(data, startX, startY, startX, endX, endY, width, 0), count),
         g |-> RoundDiv(SumLoop(data, startX, startY, startX, endX, endY, width, 1), count),
         b |-> RoundDiv(SumLoop(data, startX, startY, startX, endX, endY, width, 2), count)]

\* The channel value a colour holds for buffer offset c (0, 1, 2).
ColorAt(color, c) == IF c = 0 THEN color.r ELSE IF c = 1 THEN color.g ELSE color.b

\* A _fillBlock that also makes the block opaque.
_fillBlock_withAlpha(data, startX, startY, blockSize, width, height, color) ==
    [i \in DOMAIN data |->
        IF InBlock((i \div 4) % width, (i \div 4) \div width,
                   startX, startY, blockSize, width, height)
        THEN (IF (i % 4) = 3 THEN 255 ELSE ColorAt(color, i % 4))
        ELSE data[i]]

\* A _fillBlock that paints only the first row of the block.
_fillBlock_firstRow(data, startX, startY, blockSize, width, height, color) ==
    [i \in DOMAIN data |->
        IF /\ (i % 4) # 3
           /\ InBlock((i \div 4) % width, (i \div 4) \div width,
                      startX, startY, blockSize, width, 1 + startY)
        THEN ColorAt(color, i % 4)
        ELSE data[i]]

\* part_001:335 - alpha (offset 3) is not written.
_fillBlock(data, startX, startY, blockSize, width, height, color) ==
    [i \in DOMAIN data |->
        IF /\ (i % 4) # 3
           /\ InBlock((i \div 4) % width, (i \div 4) \div width,
                      startX, startY, blockSize, width, height)
        THEN ColorAt(color, i % 4)
        ELSE data[i]]

\* part_001:411
_hasSelectedPixels(maskData, startX, startY, blockSize, width, height) ==
    \E x \in startX..(Min(startX + blockSize, width) - 1) :
        \E y \in startY..(Min(startY + blockSize, height) - 1) :
            maskData[(y * width + x) * 4] > 127

\* A _fillBlockWithMask that writes every pixel of the block.
_fillBlockWithMask_wholeBlock(data, maskData, startX, startY, blockSize, width, height, color) ==
    [i \in DOMAIN data |->
        IF /\ (i % 4) # 3
           /\ InBlock((i \div 4) % width, (i \div 4) \div width,
                      startX, startY, blockSize, width, height)
        THEN ColorAt(color, i % 4)
        ELSE data[i]]

\* part_001:438
_fillBlockWithMask(data, maskData, startX, startY, blockSize, width, height, color) ==
    [i \in DOMAIN data |->
        IF /\ (i % 4) # 3
           /\ InBlock((i \div 4) % width, (i \div 4) \div width,
                      startX, startY, blockSize, width, height)
           /\ maskData[(i \div 4) * 4] > 127
        THEN ColorAt(color, i % 4)
        ELSE data[i]]

\* One block of the unmasked pass (part_001:281-285): average, then fill.
MosaicBlock(data, x, y, blockSize, width, height) ==
    _fillBlock(data, x, y, blockSize, width, height,
               _calculateAverageColor(data, x, y, blockSize, width, height))

\* A masked block that averages over its selected pixels only.
MosaicBlockWithMask_selectedMean(data, maskData, x, y, blockSize, width, height) ==
    LET picked == {q \in (x..(Min(x + blockSize, width) - 1))
                        \X (y..(Min(y + blockSize, height) - 1)) :
                      maskData[(q[2] * width + q[1]) * 4] > 127}
        mean(c) == RoundDiv(ChannelSum(Raster(width, height, data), picked, c),
                            Cardinality(picked))
    IN  IF _hasSelectedPixels(maskData, x, y, blockSize, width, height)
        THEN _fillBlockWithMask(data, maskData, x, y, blockSize, width, height,
                                [r |-> mean(0), g |-> mean(1), b |-> mean(2)])
        ELSE data

\* One block of the masked pass (part_001:389-395).
MosaicBlockWithMask(data, maskData, x, y, blockSize, width, height) ==
    IF _hasSelectedPixels(maskData, x, y, blockSize, width, height)
    THEN _fillBlockWithMask(data, maskData, x, y, blockSize, width, height,
                            _calculateAverageColor(data, x, y, blockSize, width, height))
    ELSE data

RECURSIVE MosaicLoop_overlapping(_, _, _, _, _, _, _, _)
\* Loops that step one pixel at a time: the blocks overlap.
MosaicLoop_overlapping(data, maskData, masked, x, y, blockSize, width, height) ==
    IF y >= height THEN data
    ELSE IF x >= width
         THEN MosaicLoop_overlapping(data, maskData, masked, 0, y + 1, blockSize, width, height)
         ELSE MosaicLoop_overlapping(
                  IF masked
                  THEN MosaicBlockWithMask(data, maskData, x, y, blockSize, width, height)
                  ELSE MosaicBlock(data, x, y, blockSize, width, height),
                  maskData, masked, x + 1, y, blockSize, width, height)

RECURSIVE MosaicLoop(_, _, _, _, _, _, _, _)
\* The two nested for loops of _processMosaic / _processMosaicWithMask, run in
\* place on data from block (x, y) on: x += blockSize inside, y += blockSize
\* outside.  masked says which loop body runs.
MosaicLoop(data, maskData, masked, x, y, blockSize, width, height) ==
    IF y >= height THEN data
    ELSE IF x >= width
         THEN MosaicLoop(data, maskData, masked, 0, y + blockSize, blockSize, width, height)
         ELSE MosaicLoop(IF masked
                         THEN MosaicBlockWithMask(data, maskData, x, y, blockSize, width, height)
                         ELSE MosaicBlock(data, x, y, blockSize, width, height),
                         maskData, masked, x + blockSize, y, blockSize, width, height)

RECURSIVE TileVisits(_, _, _, _, _)
\* part_001:279-280 and :386-387 - the block origins the two nested for loops
\* (the same in both passes) visit from (x, y) on, in order.
TileVisits(x, y, blockSize, width, height) ==
    IF y >= height THEN <<>>
    ELSE IF x >= width
         THEN TileVisits(0, y + blockSize, blockSize, width, height)
         ELSE <<(<<x, y>>)>> \o TileVisits(x + blockSize, y, blockSize, width, height)

RECURSIVE ApplyTiles(_, _, _, _, _, _, _, _)
\* The loop body of the pass run on the blocks tiles[i], tiles[i + 1], ...
ApplyTiles(data, maskData, masked, tiles, i, blockSize, width, height) ==
    IF i > Len(tiles) THEN data
    ELSE ApplyTiles(IF masked
                    THEN MosaicBlockWithMask(data, maskData, tiles[i][1], tiles[i][2],
                                             blockSize, width, height)
                    ELSE MosaicBlock(data, tiles[i][1], tiles[i][2],
                                     blockSize, width, height),
                    maskData, masked, tiles, i + 1, blockSize, width, height)

\* part_001:276
_processMosaic(imageData, blockSize) ==
    Raster(imageData.width, imageData.height,
           MosaicLoop(imageData.data, <<>>, FALSE, 0, 0, blockSize,
                      imageData.width, imageData.height))

\* part_001:382
_processMosaicWithMask(imageData, blockSize, selectionMask) ==
    Raster(imageData.width, imageData.height,
           MosaicLoop(imageData.data, selectionMask.data, TRUE, 0, 0, blockSize,
                      imageData.width, imageData.height))

\* ------------------------------------------------------------------ SelectionManager
\* null for a point and for a rectangle.
NoPoint == [x |-> -1, y |-> -1]
NoRect == [x |-> -1, y |-> -1, width |-> 0, height |-> 0]

\* selectionManager.js:5 - the state a new SelectionManager has.
NewSelection ==
    [isSelecting |-> FALSE, selectionMode |-> "rectangle", selectionPath |-> <<>>,
     rectangleSelection |-> NoRect, isConfirmed |-> FALSE,
     startPoint |-> NoPoint, currentPoint |-> NoPoint]

\* The operations below return [s |-> the SelectionManager's state afterwards,
\* n |-> the states in which onSelectionChange was invoked, in order].
Quiet(s) == [s |-> s, n |-> <<>>]

\* selectionManager.js:505
notifySelectionComplete(s) == [s |-> s, n |-> <<s>>]

\* selectionManager.js:403
hasSelection(s) ==
    IF s.selectionMode = "full" THEN s.isConfirmed
    ELSE IF s.selectionMode = "rectangle"
         THEN s.rectangleSelection # NoRect /\ s.isConfirmed
         ELSE IF s.selectionMode = "freehand"
              THEN Len(s.selectionPath) > 0 /\ s.isConfirmed
              ELSE FALSE

\* selectionManager.js:414
isSelectionConfirmed(s) == IF s.selectionMode = "full" THEN TRUE ELSE s.isConfirmed

\* A clearSelection that leaves a drag in progress.
clearSelection_keepsDrag(s, resetToDefault) ==
    [s |-> [s EXCEPT !.selectionPath = <<>>, !.rectangleSelection = NoRect,
                     !.startPoint = NoPoint, !.currentPoint = NoPoint,
                     !.selectionMode = IF resetToDefault THEN "rectangle" ELSE @,
                     !.isConfirmed = IF resetToDefault \/ s.selectionMode # "full"
                                     THEN FALSE ELSE @],
     n |-> <<[s EXCEPT !.selectionPath = <<>>, !.rectangleSelection = NoRect,
                       !.startPoint = NoPoint, !.currentPoint = NoPoint,
                       !.selectionMode = IF resetToDefault THEN "rectangle" ELSE @,
                       !.isConfirmed = IF resetToDefault \/ s.selectionMode # "full"
                                       THEN FALSE ELSE @]>>]

\* A clearSelection that forgets to drop the rectangle.
clearSelection_keepRectangle(s, resetToDefault) ==
    [s |-> [s EXCEPT !.isSelecting = FALSE, !.selectionPath = <<>>,
                     !.startPoint = NoPoint, !.currentPoint = NoPoint,
                     !.selectionMode = IF resetToDefault THEN "rectangle" ELSE @,
                     !.isConfirmed = IF resetToDefault \/ s.selectionMode # "full"
                                     THEN FALSE ELSE @],
     n |-> <<[s EXCEPT !.isSelecting = FALSE, !.selectionPath = <<>>,
                       !.startPoint = NoPoint, !.currentPoint = NoPoint,
                       !.selectionMode = IF resetToDefault THEN "rectangle" ELSE @,
                       !.isConfirmed = IF resetToDefault \/ s.selectionMode # "full"
                                       THEN FALSE ELSE @]>>]

\* selectionManager.js:343
clearSelection(s, resetToDefault) ==
    LET s1 == [s EXCEPT !.isSelecting = FALSE, !.selectionPath = <<>>,
                        !.rectangleSelection = NoRect,
                        !.startPoint = NoPoint, !.currentPoint = NoPoint]
        s2 == IF resetToDefault
              THEN [s1 EXCEPT !.selectionMode = "rectangle", !.isConfirmed = FALSE]
              ELSE IF s1.selectionMode # "full"
                   THEN [s1 EXCEPT !.isConfirmed = FALSE]
                   ELSE s1
    IN  notifySelectionComplete(s2)

\* selectionManager.js:48
setSelectionMode(s, mode) ==
    LET previousMode == s.selectionMode
        c  == clearSelection([s EXCEPT !.selectionMode = mode], FALSE)
        s3 == IF mode = "full" /\ previousMode # "full"
              THEN [c.s EXCEPT !.isConfirmed = TRUE]
              ELSE IF mode # "full"
                   THEN [c.s EXCEPT !.isConfirmed = FALSE]
                   ELSE c.s
    IN  [s |-> s3, n |-> c.n \o <<s3>>]

\* selectionManager.js:71 - point is getCanvasPoint(event).
handleMouseDown(s, button, point) ==
    IF button # 0 THEN Quiet(s)
    ELSE Quiet([s EXCEPT !.startPoint = point, !.currentPoint = point,
                         !.isSelecting = TRUE, !.isConfirmed = FALSE,
                         !.selectionPath = IF s.selectionMode = "freehand"
                                           THEN <<point>> ELSE @])

\* A handleMouseMove that stores the previewed rectangle as the selection.
handleMouseMove_storesPreview(s, point) ==
    IF ~s.isSelecting THEN Quiet(s)
    ELSE Quiet([s EXCEPT !.currentPoint = point,
                         !.rectangleSelection =
                             IF s.selectionMode = "rectangle"
                             THEN [x |-> Min(s.startPoint.x, point.x),
                                   y |-> Min(s.startPoint.y, point.y),
                                   width |-> Abs(point.x - s.startPoint.x),
                                   height |-> Abs(point.y - s.startPoint.y)]
                             ELSE @,
                         !.selectionPath = IF s.selectionMode = "freehand"
                                           THEN Append(@, point) ELSE @])

\* selectionManager.js:93
handleMouseMove(s, point) ==
    IF ~s.isSelecting THEN Quiet(s)
    ELSE Quiet([s EXCEPT !.currentPoint = point,
                         !.selectionPath = IF s.selectionMode = "freehand"
                                           THEN Append(@, point) ELSE @])

\* A finalizeRectangleSelection whose threshold excludes a side of exactly 5.
finalizeRectangleSelection_minSix(s) ==
    IF Abs(s.currentPoint.x - s.startPoint.x) <= 5
       \/ Abs(s.currentPoint.y - s.startPoint.y) <= 5
    THEN clearSelection(s, FALSE)
    ELSE notifySelectionComplete(
             [s EXCEPT !.rectangleSelection =
                           [x |-> Min(s.startPoint.x, s.currentPoint.x),
                            y |-> Min(s.startPoint.y, s.currentPoint.y),
                            width |-> Abs(s.currentPoint.x - s.startPoint.x),
                            height |-> Abs(s.currentPoint.y - s.startPoint.y)],
                       !.isConfirmed = TRUE])

\* selectionManager.js:238
finalizeRectangleSelection(s) ==
    LET x      == Min(s.startPoint.x, s.currentPoint.x)
        y      == Min(s.startPoint.y, s.currentPoint.y)
        width  == Abs(s.currentPoint.x - s.startPoint.x)
        height == Abs(s.currentPoint.y - s.startPoint.y)
    IN  IF width < 5 \/ height < 5
        THEN clearSelection(s, FALSE)
        ELSE notifySelectionComplete(
                 [s EXCEPT !.rectangleSelection =
                               [x |-> x, y |-> y, width |-> width, height |-> height],
                           !.isConfirmed = TRUE])

\* A finalizeFreehandSelection that confirms without closing the path.
finalizeFreehandSelection_open(s) ==
    IF Len(s.selectionPath) < 10
    THEN clearSelection(s, FALSE)
    ELSE notifySelectionComplete([s EXCEPT !.isConfirmed = TRUE])

\* selectionManager.js:269
finalizeFreehandSelection(s) ==
    IF Len(s.selectionPath) < 10
    THEN clearSelection(s, FALSE)
    ELSE notifySelectionComplete(
             [s EXCEPT !.selectionPath = Append(@, @[1]), !.isConfirmed = TRUE])

\* selectionManager.js:111
handleMouseUp(s, button) ==
    IF button # 0 \/ ~s.isSelecting THEN Quiet(s)
    ELSE LET s1 == [s EXCEPT !.isSelecting = FALSE]
         IN  IF s1.selectionMode = "rectangle" THEN finalizeRectangleSelection(s1)
             ELSE IF s1.selectionMode = "freehand" THEN finalizeFreehandSelection(s1)
                  ELSE Quiet(s1)

\* A handleRightClick that clears whatever the selection state.
handleRightClick_always(s) ==
    [s |-> clearSelection(s, FALSE).s,
     n |-> clearSelection(s, FALSE).n \o <<clearSelection(s, FALSE).s>>]

\* selectionManager.js:129
handleRightClick(s) ==
    IF hasSelection(s) /\ s.isConfirmed
    THEN LET c == clearSelection(s, FALSE)
         IN  [s |-> c.s, n |-> c.n \o <<c.s>>]
    ELSE Quiet(s)

\* selectionManager.js:330
confirmSelection(s) == Quiet([s EXCEPT !.isConfirmed = TRUE])

\* A clearSelectionKeepMode that, like clearSelection, keeps the whole-image
\* mode confirmed.
clearSelectionKeepMode_fullStaysConfirmed(s) ==
    [s |-> [s EXCEPT !.isSelecting = FALSE, !.selectionPath = <<>>,
                     !.rectangleSelection = NoRect,
                     !.startPoint = NoPoint, !.currentPoint = NoPoint,
                     !.isConfirmed = IF s.selectionMode = "full" THEN @ ELSE FALSE],
     n |-> <<[s EXCEPT !.isSelecting = FALSE, !.selectionPath = <<>>,
                       !.rectangleSelection = NoRect,
                       !.startPoint = NoPoint, !.currentPoint = NoPoint,
                       !.isConfirmed = IF s.selectionMode = "full" THEN @ ELSE FALSE]>>]

\* selectionManager.js:476
clearSelectionKeepMode(s) ==
    notifySelectionComplete(
        [s EXCEPT !.isSelecting = FALSE, !.selectionPath = <<>>,
                  !.rectangleSelection = NoRect,
                  !.startPoint = NoPoint, !.currentPoint = NoPoint,
                  !.isConfirmed = FALSE])

\* A getCanvasPoint that does not clamp.
getCanvasPoint_unclamped(clientX, clientY, rect, canvasWidth, canvasHeight) ==
    [x |-> ((clientX - rect.left) * canvasWidth) \div rect.width,
     y |-> ((clientY - rect.top) * canvasHeight) \div rect.height]

\* selectionManager.js:176 - the pointer position in canvas pixels, clamped to
\* the canvas.  rect is the displayed element's bounding box; the model's boxes
\* divide the scaled offsets exactly.
getCanvasPoint(clientX, clientY, rect, canvasWidth, canvasHeight) ==
    LET x == ((clientX - rect.left) * canvasWidth) \div rect.width
        y == ((clientY - rect.top) * canvasHeight) \div rect.height
    IN  [x |-> Max(0, Min(x, canvasWidth)), y |-> Max(0, Min(y, canvasHeight))]

\* The winding contribution of the edge (x1, y1) -> (x2, y2) for the point
\* (cx, cy).
Winding(x1, y1, x2, y2, cx, cy) ==
    IF y1 <= cy
    THEN (IF y2 > cy /\ (x2 - x1) * (cy - y1) - (cx - x1) * (y2 - y1) > 0 THEN 1 ELSE 0)
    ELSE (IF y2 <= cy /\ (x2 - x1) * (cy - y1) - (cx - x1) * (y2 - y1) < 0 THEN -1 ELSE 0)

\* The same for the edge p -> q and the centre of pixel (px, py), in doubled
\* coordinates so that the centre (px + 1/2, py + 1/2) is integral.
EdgeWinding(p, q, px, py) ==
    Winding(2 * p.x, 2 * p.y, 2 * q.x, 2 * q.y, 2 * px + 1, 2 * py + 1)

RECURSIVE WindingNumber(_, _, _, _)
\* The winding number of the closed polygon path (edge i joins path[i] to the
\* next point, the last one back to path[1]) around the centre of a pixel.
WindingNumber(path, i, px, py) ==
    IF i > Len(path) THEN 0
    ELSE EdgeWinding(path[i], path[IF i = Len(path) THEN 1 ELSE i + 1], px, py)
         + WindingNumber(path, i + 1, px, py)

\* Mask pixels: opaque black and opaque white.
MaskPixel(white, c) == IF c = 3 \/ white THEN 255 ELSE 0

\* A fill whose rectangle is one pixel off: x < px <= x + w, y < py <= y + h.
FilledPixel_shifted(s, px, py) ==
    IF s.selectionMode = "full" THEN TRUE
    ELSE IF s.selectionMode = "rectangle" /\ s.rectangleSelection # NoRect
         THEN /\ s.rectangleSelection.x < px
              /\ px <= s.rectangleSelection.x + s.rectangleSelection.width
              /\ s.rectangleSelection.y < py
              /\ py <= s.rectangleSelection.y + s.rectangleSelection.height
         ELSE IF s.selectionMode = "freehand" /\ Len(s.selectionPath) > 0
              THEN WindingNumber(s.selectionPath, 1, px, py) # 0
              ELSE FALSE

\* Whether the fill of createSelectionMask covers pixel (px, py).  fillRect on
\* integer coordinates covers exactly the pixels x <= px < x + w,
\* y <= py < y + h; a path fill (non-zero rule) covers the pixels whose centre
\* the polygon winds around, which is exact for polygons whose edges run along
\* pixel boundaries.
FilledPixel(s, px, py) ==
    IF s.selectionMode = "full" THEN TRUE
    ELSE IF s.selectionMode = "rectangle" /\ s.rectangleSelection # NoRect
         THEN /\ s.rectangleSelection.x <= px
              /\ px < s.rectangleSelection.x + s.rectangleSelection.width
              /\ s.rectangleSelection.y <= py
              /\ py < s.rectangleSelection.y + s.rectangleSelection.height
         ELSE IF s.selectionMode = "freehand" /\ Len(s.selectionPath) > 0
              THEN WindingNumber(s.selectionPath, 1, px, py) # 0
              ELSE FALSE

\* The RGBA buffer of a width x height mask whose pixel p (row by row) is white
\* where filled[p].
MaskData(filled, width, height) ==
    [i \in 0..(width * height * 4 - 1) |-> MaskPixel(filled[i \div 4], i % 4)]

\* selectionManager.js:426 - the canvas is filled black, then the selection
\* white.
createSelectionMask(s, width, height) ==
    Raster(width, height,
           MaskData([p \in 0..(width * height - 1) |->
                        FilledPixel(s, p % width, p \div width)],
                    width, height))

\* CanvasRenderingContext2D.putImageData(imageData, 0, 0): the pixels of
\* imageData that fall on the canvas replace the canvas's; the canvas keeps its
\* size.  An imageData of the canvas's size replaces every pixel.
PutImageData(canvas, imageData) ==
    IF imageData.width = canvas.width /\ imageData.height = canvas.height
    THEN Raster(canvas.width, canvas.height, imageData.data)
    ELSE Raster(canvas.width, canvas.height,
                [i \in DOMAIN canvas.data |->
                    IF /\ (i \div 4) % canvas.width < imageData.width
                       /\ (i \div 4) \div canvas.width < imageData.height
                    THEN imageData.data[(((i \div 4) \div canvas.width) * imageData.width
                                         + ((i \div 4) % canvas.width)) * 4 + (i % 4)]
                    ELSE canvas.data[i]])

\* An applyMosaic that always starts from the original image.
applyMosaic_fromOriginal(canvas, originalImageData, blockSize, selectionMask, useCurrentState) ==
    [canvas |-> PutImageData(canvas,
                    IF selectionMask # Free
                    THEN _processMosaicWithMask(originalImageData, blockSize, selectionMask)
                    ELSE _processMosaic(originalImageData, blockSize)),
     sourceImageData |-> originalImageData,
     originalImageData |-> originalImageData,
     ok |-> TRUE]

\* An applyMosaic that runs the pass on the source object itself, not on a
\* copy of it.
applyMosaic_inPlace(canvas, originalImageData, blockSize, selectionMask, useCurrentState) ==
    LET imageData == IF selectionMask # Free
                     THEN _processMosaicWithMask(
                              IF useCurrentState THEN canvas ELSE originalImageData,
                              blockSize, selectionMask)
                     ELSE _processMosaic(
                              IF useCurrentState THEN canvas ELSE originalImageData,
                              blockSize)
    IN  [canvas |-> PutImageData(canvas, imageData),
         sourceImageData |-> imageData,
         originalImageData |-> IF useCurrentState THEN originalImageData ELSE imageData,
         ok |-> TRUE]

\* part_001:222 - the canvas after applyMosaic, what it returned, and what the
\* objects it read hold afterwards.  selectionMask is Free for null.
\* sourceImageData is a new object read off the canvas (line 232) or
\* this.originalImageData itself (line 236); the pass runs on imageData, a
\* copy of it (line 241), which is put back on the canvas (line 255), so
\* neither of the two objects is written.
applyMosaic(canvas, originalImageData, blockSize, selectionMask, useCurrentState) ==
    LET sourceImageData == IF useCurrentState THEN canvas ELSE originalImageData
        imageData == IF selectionMask # Free
                     THEN _processMosaicWithMask(sourceImageData, blockSize, selectionMask)
                     ELSE _processMosaic(sourceImageData, blockSize)
    IN  [canvas |-> PutImageData(canvas, imageData),
         sourceImageData |-> sourceImageData,
         originalImageData |-> originalImageData,
         ok |-> TRUE]

\* app.js:416 - the value updateProcessButton gives processBtn.disabled.
updateProcessButton(hasImage, s) ==
    IF ~hasImage THEN TRUE
    ELSE IF s.selectionMode = "full" THEN FALSE
         ELSE ~(/\ hasSelection(s)
                /\ isSelectionConfirmed(s)
                /\ \/ (s.selectionMode = "rectangle" /\ s.rectangleSelection # NoRect)
                   \/ (s.selectionMode = "freehand" /\ Len(s.selectionPath) > 0))

\* app.js:43 - the selection-change callback runs updateProcessButton in each
\* notified state; the button keeps what the last call gave it.
AfterNotify(n, disabled, hasImage) ==
    IF n = <<>> THEN disabled ELSE updateProcessButton(hasImage, n[Len(n)])

\* ------------------------------------------------------------------ heap
Addr == 1..(Max(Max(MaxN, AppMaxStates), DocMaxStates) + 3)

\* `new ImageData(...)`: the lowest free address.
Alloc(hp) == CHOOSE a \in Addr : hp[a] = Free /\ \A b \in Addr : hp[b] = Free => a <= b

VARIABLES
    history,          \* HistoryManager.history: entries [imageData, actionName]
    currentIndex,     \* HistoryManager.currentIndex (0-based, -1 when empty)
    maxHistorySize,   \* HistoryManager.maxHistorySize
    heap,             \* ImageData objects by address
    live,             \* SpecHM: the raster the caller holds and passes to saveState
    ret,              \* the value the last undo()/redo() returned (address or NULL)
    lastOp,           \* the operation that produced this state
    pushRun,          \* entries pushed by consecutive successful saveState calls
    discarded,        \* how many entries the last saveState call cut off the
                      \* redo branch (0 after any other operation)
    files,            \* the image files the user can load (their decoded pixels)
    canvas,           \* ImageProcessor: the canvas backing store (a raster)
    originalImageData,\* ImageProcessor.originalImageData (Free for null)
    sel,              \* the SelectionManager's fields
    isProcessing,     \* MosaicApp.isProcessing
    pc,               \* where processImage stands: "idle", or "delay" at its await
    processBtnDisabled, \* elements.processBtn.disabled
    timers,           \* pending setTimeout callbacks of app.js:308 and :315
    passes,           \* mosaic passes started so far (bounded by MaxPasses)
    beforeUndo,       \* the canvas and the history as they were before
                      \* MosaicApp.undo, while that undo is the last thing that
                      \* happened (else NoUndo)
    notified,         \* SpecSel: how many times the last SelectionManager
                      \* operation invoked onSelectionChange
    lastPass,         \* SpecMosaic: what the last applyMosaic call worked on
                      \* (source raster, block size, mask), while that call is
                      \* the last thing that happened (else NoPass)
    lastCall,         \* SpecSel, SpecPoint: the arguments and the result of the
                      \* last createSelectionMask or getCanvasPoint call, while
                      \* that call is the last thing that happened (else NoCall)
    invoked           \* SpecRace: the mode and the mask of the selection as they
                      \* were when the processImage now at its await was invoked
                      \* (NoInvocation while none is)

appVars == <<files, canvas, originalImageData, sel, isProcessing, pc,
             processBtnDisabled, timers, passes, beforeUndo, notified, lastPass,
             lastCall, invoked>>
vars == <<history, currentIndex, maxHistorySize, heap, live, ret, lastOp, pushRun,
          discarded, files, canvas, originalImageData, sel, isProcessing, pc,
          processBtnDisabled, timers, passes, beforeUndo, notified, lastPass,
             lastCall, invoked>>

\* lastPass when the last thing that happened was not an applyMosaic call.
NoPass ==
    [source |-> Free, blockSize |-> 0, selectionMask |-> Free, useCurrentState |-> FALSE,
     original |-> Free, sourceAfter |-> Free]

\* invoked while no processImage is at its await.
NoInvocation == [selectionMode |-> "none", selectionMask |-> Free]

\* lastCall when the last thing that happened was neither of the two calls.
NoCall == [op |-> "none"]

\* beforeUndo when the last thing that happened was not an undo.
NoUndo == [canvas |-> Free, currentIndex |-> -1, entries |-> <<>>]

\* ------------------------------------------------------------------ HistoryManager
\* A cloneImageData that hands back the object it was given.
cloneImageData_alias(hp, imageData) == [heap |-> hp, ref |-> imageData]

\* historyManager.js:147 - a new ImageData over a copy of the buffer.
cloneImageData(hp, imageData) ==
    LET a == Alloc(hp)
    IN  [heap |-> [hp EXCEPT ![a] = hp[imageData]], ref |-> a]

\* historyManager.js:97
canUndo(ci) == ci > 0

\* historyManager.js:105
canRedo(h, ci) == ci < Len(h) - 1

\* A saveState that drops the entry it has just pushed when the history is
\* over its capacity.
saveState_evictNewest(h, ci, hp, maxN, imageData, actionName) ==
    LET h1 == IF ci < Len(h) - 1 THEN SubSeq(h, 1, ci + 1) ELSE h
    IN  IF imageData = NULL
        THEN [history |-> h1, currentIndex |-> ci, heap |-> hp, ok |-> FALSE]
        ELSE LET a  == Alloc(hp)
                 h2 == Append(h1, [imageData |-> a, actionName |-> actionName])
                 i2 == Len(h2) - 1
             IN  IF Len(h2) > maxN
                 THEN [history |-> SubSeq(h2, 1, Len(h2) - 1), currentIndex |-> i2 - 1,
                       heap |-> [hp EXCEPT ![a] = hp[imageData]], ok |-> TRUE]
                 ELSE [history |-> h2, currentIndex |-> i2,
                       heap |-> [hp EXCEPT ![a] = hp[imageData]], ok |-> TRUE]

\* A saveState that keeps the redo branch and appends after it.
saveState_keepRedo(h, ci, hp, maxN, imageData, actionName) ==
    IF imageData = NULL
    THEN [history |-> h, currentIndex |-> ci, heap |-> hp, ok |-> FALSE]
    ELSE LET a  == Alloc(hp)
             h2 == Append(h, [imageData |-> a, actionName |-> actionName])
             i2 == Len(h2) - 1
         IN  IF Len(h2) > maxN
             THEN [history |-> Tail(h2), currentIndex |-> i2 - 1,
                   heap |-> [hp EXCEPT ![a] = hp[imageData]], ok |-> TRUE]
             ELSE [history |-> h2, currentIndex |-> i2,
                   heap |-> [hp EXCEPT ![a] = hp[imageData]], ok |-> TRUE]

\* historyManager.js:18 - the state of the manager after saveState returns.
\* A null imageData makes cloneImageData throw; the catch on line 48 swallows it
\* after the truncation of line 22 has already happened.
saveState(h, ci, hp, maxN, imageData, actionName) ==
    LET h1 == IF ci < Len(h) - 1 THEN SubSeq(h, 1, ci + 1) ELSE h
    IN  IF imageData = NULL
        THEN [history |-> h1, currentIndex |-> ci, heap |-> hp, ok |-> FALSE]
        ELSE LET c  == cloneImageData(hp, imageData)
                 h2 == Append(h1, [imageData |-> c.ref, actionName |-> actionName])
                 i2 == Len(h2) - 1
             IN  IF Len(h2) > maxN
                 THEN [history |-> Tail(h2), currentIndex |-> i2 - 1,
                       heap |-> c.heap, ok |-> TRUE]
                 ELSE [history |-> h2, currentIndex |-> i2,
                       heap |-> c.heap, ok |-> TRUE]

\* An undo that returns the entry it moved away from.
undo_stale(h, ci, hp) ==
    IF ~(ci > 0)
    THEN [currentIndex |-> ci, heap |-> hp, ref |-> NULL]
    ELSE LET a == Alloc(hp)
         IN  [currentIndex |-> ci - 1, heap |-> [hp EXCEPT ![a] = hp[h[ci + 1].imageData]],
              ref |-> a]

\* historyManager.js:57
undo(h, ci, hp) ==
    IF ~canUndo(ci)
    THEN [currentIndex |-> ci, heap |-> hp, ref |-> NULL]
    ELSE LET c == cloneImageData(hp, h[(ci - 1) + 1].imageData)
         IN  [currentIndex |-> ci - 1, heap |-> c.heap, ref |-> c.ref]

\* A redo that returns the entry it moved away from.
redo_stale(h, ci, hp) ==
    IF ~(ci < Len(h) - 1)
    THEN [currentIndex |-> ci, heap |-> hp, ref |-> NULL]
    ELSE LET a == Alloc(hp)
         IN  [currentIndex |-> ci + 1, heap |-> [hp EXCEPT ![a] = hp[h[ci + 1].imageData]],
              ref |-> a]

\* historyManager.js:77
redo(h, ci, hp) ==
    IF ~canRedo(h, ci)
    THEN [currentIndex |-> ci, heap |-> hp, ref |-> NULL]
    ELSE LET c == cloneImageData(hp, h[(ci + 1) + 1].imageData)
         IN  [currentIndex |-> ci + 1, heap |-> c.heap, ref |-> c.ref]

\* An optimize that does not clamp the index at 0.
optimize_unclamped(h, ci, keepCount) ==
    IF Len(h) > keepCount
    THEN [history |-> SubSeq(h, (Len(h) - keepCount) + 1, Len(h)),
          currentIndex |-> ci - (Len(h) - keepCount)]
    ELSE [history |-> h, currentIndex |-> ci]

\* historyManager.js:203
optimize(h, ci, keepCount) ==
    IF Len(h) > keepCount
    THEN LET removeCount == Len(h) - keepCount
             i1 == ci - removeCount
         IN  [history |-> SubSeq(h, removeCount + 1, Len(h)),
              currentIndex |-> IF i1 < 0 THEN 0 ELSE i1]
    ELSE [history |-> h, currentIndex |-> ci]

\* ------------------------------------------------------------------ helpers
HistoryRefs(h) == {h[i].imageData : i \in 1..Len(h)}

\* What an entry holds, read through the heap.
EntryContent(e) == [imageData |-> heap[e.imageData], actionName |-> e.actionName]
HistoryContents == [i \in 1..Len(history) |-> EntryContent(history[i])]

LastN(s, n) == IF Len(s) <= n THEN s ELSE SubSeq(s, Len(s) - n + 1, Len(s))

\* Addresses carry no meaning of their own.  After every operation the objects
\* still referred to (by the history, then by the caller) are renumbered in that
\* order and everything else is garbage-collected; references that share an
\* object keep sharing it.
RootList(h, l, r) ==
    [i \in 1..(Len(h) + 2) |->
        IF i <= Len(h) THEN h[i].imageData ELSE IF i = Len(h) + 1 THEN l ELSE r]

RECURSIVE Distinct(_, _, _)
\* The objects L[i], L[i + 1], ... refer to, in order, each once, after those
\* of acc.
Distinct(L, i, acc) ==
    IF i > Len(L) THEN acc
    ELSE Distinct(L, i + 1,
                  IF L[i] = NULL \/ (\E j \in 1..Len(acc) : acc[j] = L[i])
                  THEN acc ELSE Append(acc, L[i]))

\* The new address of object a: its place in the list D of objects kept.
Rank(D, a) == IF a = NULL THEN NULL ELSE CHOOSE j \in 1..Len(D) : D[j] = a
CanonHeap(D, hp) == [a \in Addr |-> IF a <= Len(D) THEN hp[D[a]] ELSE Free]

\* The state of the object graph after an operation that leaves history h,
\* heap hp, and the caller holding l and r.
Commit(h, hp, l, r) ==
    \E D \in {Distinct(RootList(h, l, r), 1, <<>>)} :
        /\ history' = [i \in 1..Len(h) |-> [h[i] EXCEPT !.imageData = Rank(D, @)]]
        /\ live' = Rank(D, l)
        /\ ret' = Rank(D, r)
        /\ heap' = CanonHeap(D, hp)

\* ------------------------------------------------------------------ SpecHM
\* A HistoryManager driven directly by a caller.
InitHM ==
    /\ maxHistorySize \in 1..MaxN
    /\ history = <<>>
    /\ currentIndex = -1
    /\ heap = [a \in Addr |-> Free]
    /\ live = NULL
    /\ ret = NULL
    /\ lastOp = "new"
    /\ pushRun = <<>>
    /\ discarded = 0
    /\ files = {}
    /\ canvas = Free
    /\ originalImageData = Free
    /\ sel = NewSelection
    /\ isProcessing = FALSE
    /\ pc = "idle"
    /\ processBtnDisabled = TRUE
    /\ timers = 0
    /\ passes = 0
    /\ beforeUndo = NoUndo
    /\ notified = 0
    /\ lastPass = NoPass
    /\ lastCall = NoCall
    /\ invoked = NoInvocation

\* The caller obtains a fresh raster (e.g. ctx.getImageData) in place of the
\* one it held.
ClientNew ==
    \E r \in HMRasters :
        LET a == Alloc(heap)
        IN  /\ Commit(history, [heap EXCEPT ![a] = r], a, ret)
            /\ lastOp' = "clientNew"
            /\ discarded' = 0
            /\ UNCHANGED <<currentIndex, maxHistorySize, pushRun>>
            /\ UNCHANGED appVars

\* The caller writes into a raster it holds: the one it passed to saveState,
\* or the one undo()/redo() returned.
ClientMutate ==
    \E a \in {live, ret} \ {NULL} : \E r \in HMRasters :
        /\ heap[a] # r
        /\ Commit(history, [heap EXCEPT ![a] = r], live, ret)
        /\ lastOp' = "clientMutate"
        /\ discarded' = 0
        /\ UNCHANGED <<currentIndex, maxHistorySize, pushRun>>
        /\ UNCHANGED appVars

HMSaveState ==
    \E img \in {live, NULL} : \E name \in HMActionNames :
        LET s == saveState(history, currentIndex, heap, maxHistorySize, img, name)
        IN  /\ Commit(s.history, s.heap, live, ret)
            /\ currentIndex' = s.currentIndex
            /\ lastOp' = IF s.ok THEN "saveState" ELSE "saveStateFailed"
            /\ pushRun' = IF s.ok
                          THEN LastN(Append(pushRun, [imageData |-> heap[img],
                                                      actionName |-> name]),
                                     maxHistorySize + 1)
                          ELSE <<>>
            /\ discarded' = IF currentIndex < Len(history) - 1
                            THEN Len(history) - (currentIndex + 1) ELSE 0
            /\ UNCHANGED maxHistorySize
            /\ UNCHANGED appVars

\* The caller keeps what undo() returned in place of the previous return value.
HMUndo ==
    LET u == undo(history, currentIndex, heap)
    IN  /\ Commit(history, u.heap, live, u.ref)
        /\ currentIndex' = u.currentIndex
        /\ lastOp' = "undo"
        /\ discarded' = 0
        /\ pushRun' = <<>>
        /\ UNCHANGED maxHistorySize
        /\ UNCHANGED appVars

HMRedo ==
    LET u == redo(history, currentIndex, heap)
    IN  /\ Commit(history, u.heap, live, u.ref)
        /\ currentIndex' = u.currentIndex
        /\ lastOp' = "redo"
        /\ discarded' = 0
        /\ pushRun' = <<>>
        /\ UNCHANGED maxHistorySize
        /\ UNCHANGED appVars

\* historyManager.js:159
HMClear ==
    /\ Commit(<<>>, heap, live, ret)
    /\ currentIndex' = -1
    /\ lastOp' = "clear"
    /\ discarded' = 0
    /\ pushRun' = <<>>
    /\ UNCHANGED maxHistorySize
    /\ UNCHANGED appVars

HMOptimize ==
    \E keepCount \in 0..(MaxN + MaxKeepExtra) :
        LET o == optimize(history, currentIndex, keepCount)
        IN  /\ Commit(o.history, heap, live, ret)
            /\ currentIndex' = o.currentIndex
            /\ lastOp' = "optimize"
            /\ discarded' = 0
            /\ pushRun' = <<>>
            /\ UNCHANGED maxHistorySize
            /\ UNCHANGED appVars

NextHM ==
    \/ ClientNew
    \/ ClientMutate
    \/ HMSaveState
    \/ HMUndo
    \/ HMRedo
    \/ HMClear
    \/ HMOptimize

SpecHM == InitHM /\ [][NextHM]_vars

\* ------------------------------------------------------------------ Spec: MosaicApp
\* The pixels drawImage leaves on a w x h canvas for test picture k: every
\* pixel and channel distinct enough that averages over different blocks
\* differ.
TestImage(w, h, k) ==
    Raster(w, h,
           [i \in 0..(w * h * 4 - 1) |->
               LET x == (i \div 4) % w
                   y == (i \div 4) \div w
                   c == i % 4
               IN  IF c = 3 THEN 255 - ((x + 2 * y + k) % 4) * 40
                   ELSE (37 * x + 11 * y * k + 60 * c + 90 * k) % 256])
\* The file the user of Spec has.
AppImages == {TestImage(ImageW, ImageH, 1)}
\* The files the user of SpecDoc has: a small picture and two larger ones.
DocImages == {TestImage(1, 1, 1), TestImage(2, 1, 2), TestImage(2, 1, 3)}

\* The values the block-size slider holds when a pass reads it.
BlockSizes == {5}

\* Pointer positions (clientX, clientY): where a drag starts, and where a
\* pointer move outside a freehand drag goes.  The displayed canvas box is
\* unscaled and at the origin.
DownEvents == {<<1, 1>>}
PointerEvents == {<<6, 6>>}
DisplayRect == [left |-> 0, top |-> 0, width |-> canvas.width, height |-> canvas.height]
EventPoint(ev) == getCanvasPoint(ev[1], ev[2], DisplayRect, canvas.width, canvas.height)

\* The positions a freehand drag passes through after its start, in order.
Stroke ==
    << <<2, 1>>, <<4, 1>>, <<6, 1>>, <<6, 3>>, <<6, 5>>, <<6, 6>>,
       <<4, 6>>, <<2, 6>>, <<1, 6>>, <<1, 3>> >>

\* The positions the next mousemove / touchmove may report.
MoveEvents ==
    IF sel.selectionMode = "freehand" /\ sel.isSelecting
    THEN (IF Len(sel.selectionPath) <= Len(Stroke)
          THEN {Stroke[Len(sel.selectionPath)]} ELSE {})
    ELSE PointerEvents

hasImage == originalImageData # Free

\* app.js:564 - the HistoryManager after saveCurrentState: getImageData makes a
\* fresh ImageData of the canvas, which saveState is handed.
saveCurrentState(cv, orig, h, ci, hp, maxN, actionName) ==
    IF orig # Free
    THEN LET a == Alloc(hp)
         IN  saveState(h, ci, [hp EXCEPT ![a] = cv], maxN, a, actionName)
    ELSE [history |-> h, currentIndex |-> ci, heap |-> hp, ok |-> FALSE]

\* What no action of MosaicApp touches: the capacity, and the bookkeeping of
\* SpecHM, SpecSel and SpecMosaic.
AppFrame ==
    UNCHANGED <<maxHistorySize, live, ret, lastOp, pushRun, discarded, files, notified,
                lastPass, lastCall>>
\* The same, for every action that neither starts nor ends a pass.
AppFrameI == AppFrame /\ UNCHANGED invoked
\* The same for every action but the click that starts a pass.
AppFrameP == AppFrameI /\ UNCHANGED passes

\* The history as an operation of MosaicApp leaves it; the ImageData objects
\* the operation created and dropped are gone.
AppCommit(h, ci, hp) ==
    /\ \E D \in {Distinct(RootList(h, NULL, NULL), 1, <<>>)} :
        /\ history' = [i \in 1..Len(h) |-> [h[i] EXCEPT !.imageData = Rank(D, @)]]
        /\ heap' = CanonHeap(D, hp)
    /\ currentIndex' = ci

Init ==
    /\ maxHistorySize = AppMaxStates
    /\ history = <<>>
    /\ currentIndex = -1
    /\ heap = [a \in Addr |-> Free]
    /\ live = NULL
    /\ ret = NULL
    /\ lastOp = "new"
    /\ pushRun = <<>>
    /\ discarded = 0
    /\ files = AppImages
    /\ canvas = Free
    /\ originalImageData = Free
    /\ sel = NewSelection
    /\ isProcessing = FALSE
    /\ pc = "idle"
    /\ processBtnDisabled = TRUE
    /\ timers = 0
    /\ passes = 0
    /\ beforeUndo = NoUndo
    /\ notified = 0
    /\ lastPass = NoPass
    /\ lastCall = NoCall
    /\ invoked = NoInvocation

\* app.js:171-245 and part_001:184 - handleFile: loadImage sizes the canvas,
\* draws the image and keeps its pixels as originalImageData; onImageLoaded
\* updates the button and saves the initial history state.
LoadImage ==
    \E img \in files :
        \E s \in {saveCurrentState(img, img, history, currentIndex, heap,
                                  maxHistorySize, "Initial Image Load")} :
            /\ canvas' = img
            /\ originalImageData' = img
            /\ processBtnDisabled' = updateProcessButton(TRUE, sel)
            /\ AppCommit(s.history, s.currentIndex, s.heap)
            /\ beforeUndo' = NoUndo
            /\ UNCHANGED <<sel, isProcessing, pc, timers>>
            /\ AppFrameP

\* A processImage that does not look at isProcessing: a click during a pass
\* starts another one.
ProcessClick_reentrant ==
    /\ ~processBtnDisabled
    /\ passes < MaxPasses
    /\ IF ~hasImage
       THEN UNCHANGED <<isProcessing, pc, processBtnDisabled>>
       ELSE IF /\ sel.selectionMode # "full"
               /\ hasSelection(sel)
               /\ ~isSelectionConfirmed(sel)
            THEN UNCHANGED <<isProcessing, pc, processBtnDisabled>>
            ELSE /\ isProcessing' = TRUE
                 /\ processBtnDisabled' = TRUE
                 /\ pc' = "delay"
    /\ passes' = IF pc' = "delay" THEN passes + 1 ELSE passes
    /\ UNCHANGED invoked
    /\ beforeUndo' = NoUndo
    /\ UNCHANGED <<history, currentIndex, heap, canvas, originalImageData, sel, timers>>
    /\ AppFrame

\* app.js:275-278 - the selectionMask processImage hands to applyMosaic for
\* the selection s: Free for null.
PassMask(s) ==
    IF hasSelection(s) /\ s.selectionMode # "full"
    THEN createSelectionMask(s, canvas.width, canvas.height)
    ELSE Free

\* app.js:250-271 - a click on the enabled process button runs processImage up
\* to its await: it returns at once while a pass is in flight or without an
\* image (line 251) or on an unconfirmed selection (line 260), and otherwise
\* starts a pass.  record says whether invoked keeps what the selection was.
ProcessInvoke(record) ==
    /\ ~processBtnDisabled
    /\ passes < MaxPasses
    /\ IF isProcessing \/ ~hasImage
       THEN UNCHANGED <<isProcessing, pc, processBtnDisabled>>
       ELSE IF /\ sel.selectionMode # "full"
               /\ hasSelection(sel)
               /\ ~isSelectionConfirmed(sel)
            THEN UNCHANGED <<isProcessing, pc, processBtnDisabled>>
            ELSE /\ isProcessing' = TRUE
                 /\ processBtnDisabled' = TRUE
                 /\ pc' = "delay"
    /\ passes' = IF pc' = "delay" /\ pc = "idle" THEN passes + 1 ELSE passes
    /\ invoked' = IF record /\ pc' = "delay" /\ pc = "idle"
                  THEN [selectionMode |-> sel.selectionMode, selectionMask |-> PassMask(sel)]
                  ELSE invoked
    /\ beforeUndo' = NoUndo
    /\ UNCHANGED <<history, currentIndex, heap, canvas, originalImageData, sel, timers>>
    /\ AppFrame

ProcessClick == ProcessInvoke(FALSE)

\* app.js:273-333 - processImage from the end of its delay to its return.  The
\* timers of an earlier pass (10 ms, 50 ms) were set before this pass's delay
\* (100 ms) began, so they have run.
ProcessResume ==
    /\ pc = "delay"
    /\ timers = 0
    /\ \E blockSize \in BlockSizes :
        \E selectionMask \in {
                IF hasSelection(sel) /\ sel.selectionMode # "full"
                THEN createSelectionMask(sel, canvas.width, canvas.height)
                ELSE Free} :
        \E m \in {applyMosaic(canvas, originalImageData, blockSize, selectionMask, TRUE)} :
        \E s \in {saveCurrentState(m.canvas, originalImageData, history, currentIndex,
                                  heap, maxHistorySize, "Mosaic Applied")} :
        \E c \in {clearSelectionKeepMode(sel)} :
            /\ canvas' = m.canvas
            /\ AppCommit(s.history, s.currentIndex, s.heap)
            /\ sel' = c.s
            /\ timers' = 2
            /\ isProcessing' = FALSE
            \* setProcessingState(false) in the finally block is the last write
            /\ processBtnDisabled' = FALSE
            /\ pc' = "idle"
            /\ beforeUndo' = NoUndo
            /\ originalImageData' = m.originalImageData
            /\ invoked' = NoInvocation
            /\ UNCHANGED passes
            /\ AppFrame

\* app.js:265-333 - the ways processImage ends a pass without completing the
\* success branch; the finally block runs in each.
\*   "failed"  applyMosaic returned false (its own catch, part_001:264-267), or
\*             an exception was raised before it drew (app.js:275-284): the
\*             canvas was not written.
\*   "thrown"  applyMosaic drew its result and returned true, then
\*             saveCurrentState's getImageData (app.js:566) raised: the catch at
\*             app.js:326 reports the failure, nothing was pushed and the
\*             selection was not cleared.
ProcessOutcomes == {"failed", "thrown"}

ProcessFail ==
    /\ pc = "delay"
    /\ timers = 0
    /\ \E outcome \in ProcessOutcomes :
        \E blockSize \in BlockSizes :
        \E m \in {applyMosaic(canvas, originalImageData, blockSize, PassMask(sel), TRUE)} :
            /\ canvas' = IF outcome = "thrown" THEN m.canvas ELSE canvas
            /\ originalImageData' = IF outcome = "thrown" THEN m.originalImageData
                                     ELSE originalImageData
            /\ isProcessing' = FALSE
            /\ processBtnDisabled' = FALSE
            /\ pc' = "idle"
            /\ invoked' = NoInvocation
            /\ UNCHANGED <<history, currentIndex, heap, sel, timers, beforeUndo, passes>>
            /\ AppFrame

\* app.js:308 and :315 - a deferred callback disables the button.
TimerFire ==
    /\ timers > 0
    /\ timers' = timers - 1
    /\ processBtnDisabled' = TRUE
    /\ UNCHANGED <<history, currentIndex, heap, canvas, originalImageData, sel,
                   isProcessing, pc, beforeUndo>>
    /\ AppFrameP

\* app.js:579 - MosaicApp.undo (button or Ctrl+Z).
AppUndo ==
    \E u \in {undo(history, currentIndex, heap)} :
    \E c \in {clearSelection(sel, FALSE)} :
        /\ AppCommit(history, u.currentIndex, u.heap)
        /\ IF u.ref # NULL
           THEN /\ canvas' = PutImageData(canvas, u.heap[u.ref])
                /\ sel' = c.s
                /\ processBtnDisabled' = updateProcessButton(hasImage, c.s)
                /\ beforeUndo' = [canvas |-> canvas, currentIndex |-> currentIndex,
                                   entries |-> HistoryContents]
           ELSE /\ beforeUndo' = NoUndo
                /\ UNCHANGED <<canvas, sel, processBtnDisabled>>
        /\ UNCHANGED <<originalImageData, isProcessing, pc, timers>>
        /\ AppFrameP

\* app.js:595 - MosaicApp.redo (button, Ctrl+Y or Ctrl+Shift+Z).
AppRedo ==
    \E u \in {redo(history, currentIndex, heap)} :
    \E c \in {clearSelection(sel, FALSE)} :
        /\ AppCommit(history, u.currentIndex, u.heap)
        /\ IF u.ref # NULL
           THEN /\ canvas' = PutImageData(canvas, u.heap[u.ref])
                /\ sel' = c.s
                /\ processBtnDisabled' = updateProcessButton(hasImage, c.s)
           ELSE UNCHANGED <<canvas, sel, processBtnDisabled>>
        /\ beforeUndo' = NoUndo
        /\ UNCHANGED <<originalImageData, isProcessing, pc, timers>>
        /\ AppFrameP

\* A restoreOriginal that reports success without drawing.
restoreOriginal_keepCanvas(cv, orig) ==
    [canvas |-> cv, ok |-> orig # Free]

\* part_001:354
restoreOriginal(cv, orig) ==
    IF orig # Free
    THEN [canvas |-> PutImageData(cv, orig), ok |-> TRUE]
    ELSE [canvas |-> cv, ok |-> FALSE]

\* app.js:631 - MosaicApp.resetToOriginal; the reset button is shown once an
\* image is loaded.
AppReset ==
    /\ hasImage
    /\ \E r \in {restoreOriginal(canvas, originalImageData)} :
       \E s \in {saveCurrentState(r.canvas, originalImageData, history, currentIndex,
                                 heap, maxHistorySize, "Reset to Original")} :
       \E c \in {clearSelection(sel, FALSE)} :
           /\ canvas' = r.canvas
           /\ AppCommit(s.history, s.currentIndex, s.heap)
           /\ sel' = c.s
           /\ processBtnDisabled' = updateProcessButton(hasImage, c.s)
    /\ beforeUndo' = NoUndo
    /\ UNCHANGED <<originalImageData, isProcessing, pc, timers>>
    /\ AppFrameP

\* What a SelectionManager handler leaves: its state, and the button as the
\* change callback set it.
SelectionStep(r) ==
    /\ sel' = r.s
    /\ processBtnDisabled' = AfterNotify(r.n, processBtnDisabled, hasImage)
    /\ beforeUndo' = NoUndo
    /\ UNCHANGED <<history, currentIndex, heap, canvas, originalImageData,
                   isProcessing, pc, timers>>
    /\ AppFrameP

\* mousedown, or touchstart (selectionManager.js:142, which passes button 0).
\* The canvas is shown once an image is loaded.
MouseDown ==
    /\ hasImage
    /\ \E ev \in DownEvents : \E button \in {0, 2} :
        SelectionStep(handleMouseDown(sel, button, EventPoint(ev)))

\* mousemove or touchmove.
MouseMove ==
    /\ hasImage
    /\ \E ev \in MoveEvents : SelectionStep(handleMouseMove(sel, EventPoint(ev)))

\* mouseup, or touchend (button 0).
MouseUp ==
    /\ hasImage
    /\ \E button \in {0, 2} : SelectionStep(handleMouseUp(sel, button))

\* contextmenu
RightClick ==
    /\ hasImage
    /\ SelectionStep(handleRightClick(sel))

\* app.js:485 - a mode radio button's change event: another mode is chosen.
\* The radios are shown once an image is loaded.
ChangeSelectionMode ==
    /\ hasImage
    /\ \E mode \in {"rectangle", "freehand", "full"} \ {sel.selectionMode} :
        LET r == setSelectionMode(sel, mode)
        IN  /\ sel' = r.s
            /\ processBtnDisabled' = updateProcessButton(hasImage, r.s)
            /\ beforeUndo' = NoUndo
            /\ UNCHANGED <<history, currentIndex, heap, canvas, originalImageData,
                           isProcessing, pc, timers>>
            /\ AppFrameP

Next ==
    \/ LoadImage
    \/ ProcessClick
    \/ ProcessResume
    \/ TimerFire
    \/ AppUndo
    \/ AppRedo
    \/ AppReset
    \/ MouseDown
    \/ MouseMove
    \/ MouseUp
    \/ RightClick
    \/ ChangeSelectionMode

Spec == Init /\ [][Next]_vars

\* ------------------------------------------------------------------ SpecRace
\* The same application, keeping in invoked what the selection was when the
\* pass in flight was started.
RaceProcessClick == ProcessInvoke(TRUE)

NextRace ==
    \/ LoadImage
    \/ RaceProcessClick
    \/ ProcessResume
    \/ TimerFire
    \/ AppUndo
    \/ AppRedo
    \/ AppReset
    \/ MouseDown
    \/ MouseMove
    \/ MouseUp
    \/ RightClick
    \/ ChangeSelectionMode

SpecRace == Init /\ [][NextRace]_vars

\* ----------------------------------------------------------------- SpecLive
\* MosaicApp with passes that may fail.  The delay processImage awaits and the
\* two setTimeout callbacks are scheduled by the event loop, which runs every
\* due callback: weak fairness on the pass's continuation and on the timers.
NextLive ==
    \/ LoadImage
    \/ ProcessClick
    \/ ProcessResume
    \/ ProcessFail
    \/ TimerFire
    \/ AppUndo
    \/ AppRedo
    \/ AppReset
    \/ MouseDown
    \/ MouseMove
    \/ MouseUp
    \/ RightClick
    \/ ChangeSelectionMode

SpecLive ==
    /\ Init
    /\ [][NextLive]_vars
    /\ WF_vars(TimerFire)
    /\ WF_vars(ProcessResume \/ ProcessFail)

\* ------------------------------------------------------------------ SpecDoc
\* MosaicApp used through its file input and its undo, redo and reset buttons
\* only, by a user who has pictures of two sizes; its HistoryManager keeps
\* DocMaxStates states.
InitDoc ==
    /\ maxHistorySize = DocMaxStates
    /\ history = <<>>
    /\ currentIndex = -1
    /\ heap = [a \in Addr |-> Free]
    /\ live = NULL
    /\ ret = NULL
    /\ lastOp = "new"
    /\ pushRun = <<>>
    /\ discarded = 0
    /\ files = DocImages
    /\ canvas = Free
    /\ originalImageData = Free
    /\ sel = NewSelection
    /\ isProcessing = FALSE
    /\ pc = "idle"
    /\ processBtnDisabled = TRUE
    /\ timers = 0
    /\ passes = 0
    /\ beforeUndo = NoUndo
    /\ notified = 0
    /\ lastPass = NoPass
    /\ lastCall = NoCall
    /\ invoked = NoInvocation

NextDoc ==
    \/ LoadImage
    \/ AppUndo
    \/ AppRedo
    \/ AppReset

SpecDoc == InitDoc /\ [][NextDoc]_vars

\* ------------------------------------------------------------------ SpecSel
\* A SelectionManager on a canvas of ImageW x ImageH pixels, driven through its
\* event handlers and its public methods.
InitSel ==
    /\ maxHistorySize = AppMaxStates
    /\ history = <<>>
    /\ currentIndex = -1
    /\ heap = [a \in Addr |-> Free]
    /\ live = NULL
    /\ ret = NULL
    /\ lastOp = "new"
    /\ pushRun = <<>>
    /\ discarded = 0
    /\ files = {}
    /\ canvas = TestImage(ImageW, ImageH, 1)
    /\ originalImageData = Free
    /\ sel = NewSelection
    /\ isProcessing = FALSE
    /\ pc = "idle"
    /\ processBtnDisabled = TRUE
    /\ timers = 0
    /\ passes = 0
    /\ beforeUndo = NoUndo
    /\ notified = 0
    /\ lastPass = NoPass
    /\ lastCall = NoCall
    /\ invoked = NoInvocation

\* Where a drag starts, and where the pointer goes during a rectangle drag or
\* outside a drag.
SelDownEvents == {<<1, 1>>, <<6, 6>>}
SelPointerEvents == {<<1, 1>>, <<3, 6>>, <<6, 6>>}

\* The positions the next mousemove / touchmove may report: a freehand drag
\* follows Stroke.
SelMoveEvents ==
    IF sel.selectionMode = "freehand" /\ sel.isSelecting
    THEN (IF Len(sel.selectionPath) <= Len(Stroke)
          THEN {Stroke[Len(sel.selectionPath)]} ELSE {})
    ELSE SelPointerEvents

\* The operation op has run and returned r.
SelApply(op, r) ==
    /\ sel' = r.s
    /\ notified' = Len(r.n)
    /\ lastOp' = op
    /\ UNCHANGED <<history, currentIndex, maxHistorySize, heap, live, ret, pushRun,
                   discarded, files, canvas, originalImageData, isProcessing, pc,
                   processBtnDisabled, timers, passes, beforeUndo, lastPass, invoked>>
    /\ lastCall' = NoCall

\* mousedown (either button), or touchstart (button 0).
SelMouseDown ==
    \E ev \in SelDownEvents : \E button \in {0, 2} :
        SelApply("handleMouseDown", handleMouseDown(sel, button, EventPoint(ev)))

\* mousemove or touchmove.
SelMouseMove ==
    \E ev \in SelMoveEvents :
        SelApply("handleMouseMove", handleMouseMove(sel, EventPoint(ev)))

\* mouseup (either button), or touchend (button 0).
SelMouseUp ==
    \E button \in {0, 2} : SelApply("handleMouseUp", handleMouseUp(sel, button))

\* contextmenu
SelRightClick == SelApply("handleRightClick", handleRightClick(sel))

SelSetMode ==
    \E mode \in {"rectangle", "freehand", "full"} :
        SelApply("setSelectionMode", setSelectionMode(sel, mode))

SelClear ==
    \E resetToDefault \in BOOLEAN :
        SelApply("clearSelection", clearSelection(sel, resetToDefault))

SelClearKeepMode == SelApply("clearSelectionKeepMode", clearSelectionKeepMode(sel))

SelConfirm == SelApply("confirmSelection", confirmSelection(sel))

\* selectionManager.js:426 - createSelectionMask for the canvas's size, as
\* processImage calls it (app.js:276).
SelCreateMask ==
    /\ lastCall' = [op |-> "createSelectionMask",
                    width |-> canvas.width, height |-> canvas.height,
                    result |-> createSelectionMask(sel, canvas.width, canvas.height)]
    /\ lastOp' = "createSelectionMask"
    /\ notified' = 0
    /\ UNCHANGED <<history, currentIndex, maxHistorySize, heap, live, ret, pushRun,
                   discarded, files, canvas, originalImageData, sel, isProcessing, pc,
                   processBtnDisabled, timers, passes, beforeUndo, lastPass, invoked>>

NextSel ==
    \/ SelMouseDown
    \/ SelMouseMove
    \/ SelMouseUp
    \/ SelRightClick
    \/ SelSetMode
    \/ SelClear
    \/ SelClearKeepMode
    \/ SelConfirm
    \/ SelCreateMask

SpecSel == InitSel /\ [][NextSel]_vars

\* ------------------------------------------------------------------ SpecPoint
\* The pointer handlers of a SelectionManager in rectangle mode whose canvas
\* is displayed scaled and offset: each takes its point from getCanvasPoint.

\* getBoundingClientRect() of the canvas: shown at three times its width and
\* twice its height, off the viewport's corner; or at twice its width from the
\* corner.
PointRects ==
    {[left |-> 1, top |-> 2, width |-> 3 * canvas.width, height |-> 2 * canvas.height],
     [left |-> 0, top |-> 0, width |-> 2 * canvas.width, height |-> canvas.height]}

\* clientX, clientY of the events: left of and above both boxes, two inside
\* both, and one right of and below both.  The scaled offsets are whole
\* numbers for both boxes.
PointClients ==
    {<<-2, -2>>, <<4, 4>>, <<10, 6>>, <<3 * canvas.width + 4, 2 * canvas.height + 4>>}

\* What the handlers of SpecPoint leave alone.
PointFrame ==
    UNCHANGED <<history, currentIndex, maxHistorySize, heap, live, ret, pushRun,
                discarded, files, canvas, originalImageData, isProcessing, pc,
                processBtnDisabled, timers, passes, beforeUndo, lastPass, invoked>>

\* The getCanvasPoint call a handler makes for an event.
PointCall(ev, rect) ==
    [op |-> "getCanvasPoint", clientX |-> ev[1], clientY |-> ev[2], rect |-> rect,
     result |-> getCanvasPoint(ev[1], ev[2], rect, canvas.width, canvas.height)]

\* selectionManager.js:71 - left mousedown, or touchstart.
PointMouseDown ==
    \E ev \in PointClients : \E rect \in PointRects :
    \E call \in {PointCall(ev, rect)} :
        /\ sel' = handleMouseDown(sel, 0, call.result).s
        /\ lastCall' = call
        /\ lastOp' = "handleMouseDown"
        /\ notified' = 0
        /\ PointFrame

\* selectionManager.js:93 - mousemove or touchmove; it returns before
\* getCanvasPoint when no drag is under way.
PointMouseMove ==
    \E ev \in PointClients : \E rect \in PointRects :
    \E call \in {PointCall(ev, rect)} :
        /\ sel' = handleMouseMove(sel, call.result).s
        /\ lastCall' = IF sel.isSelecting THEN call ELSE NoCall
        /\ lastOp' = "handleMouseMove"
        /\ notified' = 0
        /\ PointFrame

\* selectionManager.js:111 - left mouseup, or touchend.
PointMouseUp ==
    \E r \in {handleMouseUp(sel, 0)} :
        /\ sel' = r.s
        /\ lastCall' = NoCall
        /\ lastOp' = "handleMouseUp"
        /\ notified' = Len(r.n)
        /\ PointFrame

NextPoint ==
    \/ PointMouseDown
    \/ PointMouseMove
    \/ PointMouseUp

SpecPoint == InitSel /\ [][NextPoint]_vars

\* ------------------------------------------------------------------ SpecMosaic
\* An ImageProcessor driven through loadImage, applyMosaic and restoreOriginal,
\* with masks as createSelectionMask makes them.
MosMaxW == 3
MosMaxH == 2
MaxBlockSize == 3
\* applyMosaic calls in one behaviour.
MosMaxPasses == 2

\* The images loaded: every size up to MosMaxW x MosMaxH.
MosImages == {TestImage(w, h, 1) : w \in 1..MosMaxW, h \in 1..MosMaxH}

\* The selections masks are made of: a corner pixel, and a 2 x 2 rectangle off
\* the tile grid.
MosSelections ==
    {[NewSelection EXCEPT !.isConfirmed = TRUE,
                          !.rectangleSelection = [x |-> 0, y |-> 0, width |-> 1, height |-> 1]],
     [NewSelection EXCEPT !.isConfirmed = TRUE,
                          !.rectangleSelection = [x |-> 1, y |-> 0, width |-> 2, height |-> 2]]}

\* The selectionMask arguments for a canvas of width x height: null, or a mask
\* of that size.
MosMasks(width, height) ==
    {Free} \cup {createSelectionMask(s, width, height) : s \in MosSelections}

InitMosaic ==
    /\ maxHistorySize = AppMaxStates
    /\ history = <<>>
    /\ currentIndex = -1
    /\ heap = [a \in Addr |-> Free]
    /\ live = NULL
    /\ ret = NULL
    /\ lastOp = "new"
    /\ pushRun = <<>>
    /\ discarded = 0
    /\ files = MosImages
    /\ canvas = Free
    /\ originalImageData = Free
    /\ sel = NewSelection
    /\ isProcessing = FALSE
    /\ pc = "idle"
    /\ processBtnDisabled = TRUE
    /\ timers = 0
    /\ passes = 0
    /\ beforeUndo = NoUndo
    /\ notified = 0
    /\ lastPass = NoPass
    /\ lastCall = NoCall
    /\ invoked = NoInvocation

\* What the ImageProcessor does not touch.
MosFrame ==
    UNCHANGED <<history, currentIndex, maxHistorySize, heap, live, ret, pushRun,
                discarded, files, sel, isProcessing, pc, processBtnDisabled, timers,
                beforeUndo, notified, lastCall, invoked>>

\* part_001:184 - loadImage sizes the canvas, draws the image and keeps its
\* pixels.
MosLoadImage ==
    \E img \in files :
        /\ canvas' = img
        /\ originalImageData' = img
        /\ lastOp' = "loadImage"
        /\ lastPass' = NoPass
        /\ UNCHANGED passes
        /\ MosFrame

\* part_001:222 - applyMosaic with an image loaded (it throws without one).
MosApplyMosaic ==
    /\ hasImage
    /\ passes < MosMaxPasses
    /\ passes' = passes + 1
    /\ \E blockSize \in 1..MaxBlockSize :
       \E selectionMask \in MosMasks(canvas.width, canvas.height) :
       \E useCurrentState \in BOOLEAN :
       \E m \in {applyMosaic(canvas, originalImageData, blockSize, selectionMask,
                             useCurrentState)} :
           /\ canvas' = m.canvas
           /\ originalImageData' = m.originalImageData
           /\ lastPass' = [source |-> IF useCurrentState THEN canvas
                                      ELSE originalImageData,
                           blockSize |-> blockSize,
                           selectionMask |-> selectionMask,
                           useCurrentState |-> useCurrentState,
                           original |-> originalImageData,
                           sourceAfter |-> m.sourceImageData]
    /\ lastOp' = "applyMosaic"
    /\ MosFrame

\* part_001:354
MosRestoreOriginal ==
    /\ canvas' = restoreOriginal(canvas, originalImageData).canvas
    /\ lastOp' = "restoreOriginal"
    /\ lastPass' = NoPass
    /\ UNCHANGED <<originalImageData, passes>>
    /\ MosFrame

NextMosaic ==
    \/ MosLoadImage
    \/ MosApplyMosaic
    \/ MosRestoreOriginal

SpecMosaic == InitMosaic /\ [][NextMosaic]_vars

\* ------------------------------------------------------------------ properties
\* The entries of the history up to and including the current one.
KeptOnSave ==
    [i \in 1..Min(Len(history), currentIndex + 1) |-> HistoryContents[i]]

\* C2: after any sequence of saveState, undo, redo, clear and optimize calls on
\* a HistoryManager with maxHistorySize >= 1, a non-empty history has
\* 0 <= currentIndex < history.length.
CurrentIndexInRange ==
    Len(history) > 0 => (0 <= currentIndex /\ currentIndex < Len(history))

\* optimize has cut a two-entry history whose index was 0 down to one entry.
CurrentIndexInRange_Witness ==
    /\ lastOp = "optimize"
    /\ Len(history) = 1
    /\ currentIndex = 0
    /\ maxHistorySize >= 2

\* C3: the history never holds more than maxHistorySize entries, and after
\* maxHistorySize + 1 or more consecutive pushes it holds exactly the
\* maxHistorySize most recently pushed entries in push order, with
\* currentIndex = maxHistorySize - 1 on the entry just pushed.
HistoryBounded ==
    /\ Len(history) <= maxHistorySize
    /\ Len(pushRun) = maxHistorySize + 1 =>
          /\ HistoryContents = Tail(pushRun)
          /\ currentIndex = maxHistorySize - 1

\* maxHistorySize + 1 pushes in a row, the oldest unlike its successor, into
\* the largest manager.
HistoryBounded_Witness ==
    /\ lastOp = "saveState"
    /\ maxHistorySize = MaxN
    /\ Len(pushRun) = maxHistorySize + 1
    /\ pushRun[1] # pushRun[2]
    /\ Len(history) = maxHistorySize

\* C4: a successful saveState leaves the entries up to the old currentIndex
\* followed by the pushed entry (cut to capacity from the front): the entries
\* after the old currentIndex are gone, the pushed entry is last, currentIndex
\* points at it and canRedo() is false.
SaveStateAbandonsRedo ==
    [][(HMSaveState /\ lastOp' = "saveState") =>
          /\ \E name \in HMActionNames :
                HistoryContents' =
                    LastN(Append(KeptOnSave, [imageData |-> heap[live],
                                              actionName |-> name]),
                          maxHistorySize)
          /\ currentIndex' = Len(history') - 1
          /\ ~canRedo(history', currentIndex')]_vars

\* A saveState has cut a redo branch.
SaveStateAbandonsRedo_Witness ==
    /\ lastOp = "saveState"
    /\ discarded > 0
    /\ Len(history) >= 2
    /\ currentIndex = Len(history) - 1

\* C5: undo() with currentIndex <= 0 returns null and leaves the entries and
\* currentIndex as they were; otherwise it decrements currentIndex by one,
\* leaves the entries as they were and returns a raster equal to the snapshot
\* at the new currentIndex.
UndoContract ==
    [][HMUndo =>
          /\ HistoryContents' = HistoryContents
          /\ IF currentIndex <= 0
             THEN ret' = NULL /\ currentIndex' = currentIndex
             ELSE /\ currentIndex' = currentIndex - 1
                  /\ ret' # NULL
                  /\ heap'[ret'] = HistoryContents'[currentIndex' + 1].imageData]_vars

\* An undo has stepped back from an entry that differs from the one returned.
UndoContract_Witness ==
    /\ lastOp = "undo"
    /\ ret # NULL
    /\ currentIndex < Len(history) - 1
    /\ heap[ret] = heap[history[currentIndex + 1].imageData]
    /\ heap[ret] # heap[history[currentIndex + 2].imageData]

\* C6: redo() with currentIndex on the last index (or an empty history) returns
\* null and leaves the entries and currentIndex as they were; otherwise it
\* increments currentIndex by one, leaves the entries as they were and returns
\* a raster equal to the snapshot at the new currentIndex.
RedoContract ==
    [][HMRedo =>
          /\ HistoryContents' = HistoryContents
          /\ IF currentIndex >= Len(history) - 1
             THEN ret' = NULL /\ currentIndex' = currentIndex
             ELSE /\ currentIndex' = currentIndex + 1
                  /\ ret' # NULL
                  /\ heap'[ret'] = HistoryContents'[currentIndex' + 1].imageData]_vars

\* A redo has stepped forward from an entry that differs from the one returned.
RedoContract_Witness ==
    /\ lastOp = "redo"
    /\ ret # NULL
    /\ currentIndex > 0
    /\ heap[ret] = heap[history[currentIndex + 1].imageData]
    /\ heap[ret] # heap[history[currentIndex].imageData]

\* C8: no write into a raster the caller holds - the one it passed to
\* saveState, or one undo() or redo() returned - changes the pixel content of
\* an entry the history retains.
SnapshotsNotAliased ==
    [][ClientMutate => HistoryContents' = HistoryContents]_vars

\* The caller has overwritten the raster whose snapshot is the last entry, and
\* holds a raster that undo() or redo() returned.
SnapshotsNotAliased_Witness ==
    /\ lastOp = "clientMutate"
    /\ Len(history) > 0
    /\ live # NULL
    /\ ret # NULL
    /\ heap[live] # heap[history[Len(history)].imageData]

\* C1: processImage invoked with an image loaded, in rectangle or freehand
\* mode and with no confirmed selection (hasSelection() false), fails: no
\* mosaic pass starts, and the raster and the history stay as they are.
UnconfirmedSelectionRejected ==
    [][(/\ ProcessClick
        /\ hasImage
        /\ ~isProcessing
        /\ sel.selectionMode # "full"
        /\ ~hasSelection(sel)) =>
          /\ pc' = "idle"
          /\ ~isProcessing'
          /\ UNCHANGED <<canvas, history, currentIndex, heap>>]_vars

\* C7: undo immediately followed by redo puts back the raster that was
\* displayed before the undo, and restores currentIndex and the entries.
UndoRedoRoundTrip ==
    [][(beforeUndo # NoUndo /\ AppRedo) =>
          /\ canvas' = beforeUndo.canvas
          /\ currentIndex' = beforeUndo.currentIndex
          /\ HistoryContents' = beforeUndo.entries]_vars

\* The step in which processImage returns from a pass it ran (ProcessResume is
\* the one action that takes pc from "delay" to "idle").
PassCompletes == pc = "delay" /\ pc' = "idle"

\* C9: a mosaic pass leaves on the canvas the engine's result for the raster
\* the canvas held when the pass ran (not for the original image), and that
\* raster is the last history entry, named 'Mosaic Applied', with currentIndex
\* on it.
MosaicPassComposes ==
    [][PassCompletes =>
          /\ \E blockSize \in BlockSizes :
                canvas' =
                    IF hasSelection(sel) /\ sel.selectionMode # "full"
                    THEN _processMosaicWithMask(
                             canvas, blockSize,
                             createSelectionMask(sel, canvas.width, canvas.height))
                    ELSE _processMosaic(canvas, blockSize)
          /\ Len(history') > 0
          /\ HistoryContents'[Len(history')] =
                 [imageData |-> canvas', actionName |-> "Mosaic Applied"]
          /\ currentIndex' = Len(history') - 1]_vars

\* A second pass has just run on the result of a first one.
MosaicPassComposes_Witness ==
    /\ timers = 2
    /\ passes = 2
    /\ Len(history) >= 2
    /\ currentIndex = Len(history) - 1
    /\ HistoryContents[Len(history)] =
           [imageData |-> canvas, actionName |-> "Mosaic Applied"]
    /\ HistoryContents[Len(history) - 1].actionName = "Mosaic Applied"
    /\ HistoryContents[Len(history) - 1].imageData # canvas
    /\ canvas # originalImageData

\* C10: a mosaic pass leaves the selection idle in the mode it was in:
\* selectionMode unchanged, rectangleSelection null, selectionPath empty,
\* isSelecting false and hasSelection() false, in each of the three modes.
SelectionIdleAfterPass ==
    [][PassCompletes =>
          /\ sel'.selectionMode = sel.selectionMode
          /\ sel'.rectangleSelection = NoRect
          /\ sel'.selectionPath = <<>>
          /\ ~sel'.isSelecting
          /\ ~hasSelection(sel')]_vars

\* A pass over the whole image has just run: the mode is still 'full' and
\* nothing is selected.
SelectionIdleAfterPass_Witness ==
    /\ timers = 2
    /\ pc = "idle"
    /\ sel.selectionMode = "full"
    /\ ~sel.isSelecting
    /\ ~hasSelection(sel)

\* C11: resetToOriginal puts on the canvas exactly the raster captured at the
\* load and pushes it as a 'Reset to Original' entry that becomes the current
\* one; and only a load changes the retained original.
ResetRestoresOriginal ==
    [][/\ AppReset =>
            /\ canvas' = originalImageData
            /\ Len(history') > 0
            /\ currentIndex' = Len(history') - 1
            /\ HistoryContents'[Len(history')] =
                   [imageData |-> originalImageData,
                    actionName |-> "Reset to Original"]
       /\ originalImageData' # originalImageData => LoadImage]_vars

\* A reset has just undone a mosaic pass that is still in the history.
ResetRestoresOriginal_Witness ==
    /\ Len(history) >= 2
    /\ currentIndex = Len(history) - 1
    /\ history[Len(history)].actionName = "Reset to Original"
    /\ history[Len(history) - 1].actionName = "Mosaic Applied"
    /\ heap[history[Len(history) - 1].imageData] # originalImageData
    /\ canvas = originalImageData

\* C12: while the mode stays 'full', isConfirmed stays true under every
\* pointer event, clear, undo, redo and reset, until a mosaic pass completes.
FullModeStaysConfirmed ==
    [][(/\ sel.selectionMode = "full"
        /\ sel.isConfirmed
        /\ sel'.selectionMode = "full"
        /\ ~PassCompletes) => sel'.isConfirmed]_vars

\* C13: under every sequence of SelectionManager operations, isConfirmed in
\* rectangle mode implies a rectangle of at least 5 x 5, and in freehand mode a
\* closed path of at least 10 recorded points.
ConfirmedOnlyByDrag ==
    /\ (sel.selectionMode = "rectangle" /\ sel.isConfirmed) =>
           /\ sel.rectangleSelection # NoRect
           /\ sel.rectangleSelection.width >= 5
           /\ sel.rectangleSelection.height >= 5
    /\ (sel.selectionMode = "freehand" /\ sel.isConfirmed) =>
           /\ Len(sel.selectionPath) >= 11
           /\ sel.selectionPath[Len(sel.selectionPath)] = sel.selectionPath[1]

\* The step in which a drag ends: mouseup with the left button, or touchend,
\* while a drag is in progress.
DragEnd == sel.isSelecting /\ SelApply("handleMouseUp", handleMouseUp(sel, 0))

\* The drag that ends met its mode's minimum size.
DragMeetsThreshold ==
    \/ /\ sel.selectionMode = "rectangle"
       /\ Abs(sel.currentPoint.x - sel.startPoint.x) >= 5
       /\ Abs(sel.currentPoint.y - sel.startPoint.y) >= 5
    \/ /\ sel.selectionMode = "freehand"
       /\ Len(sel.selectionPath) >= 10

\* C14: from every state, setSelectionMode('full') leaves hasSelection() true
\* and setSelectionMode('rectangle' / 'freehand') leaves it false; outside
\* full mode it then stays false until a drag meeting the threshold ends.
ModeSwitchSelection ==
    [][/\ lastOp' = "setSelectionMode" =>
            (hasSelection(sel') <=> sel'.selectionMode = "full")
       /\ (/\ sel.selectionMode # "full"
           /\ sel'.selectionMode = sel.selectionMode
           /\ ~hasSelection(sel)
           /\ hasSelection(sel')) => (DragEnd /\ DragMeetsThreshold)]_vars

\* The observable selection status: confirmed-ness, mode, and whether there
\* is geometry.
SelectionStatus(s) ==
    <<s.isConfirmed, s.selectionMode, s.rectangleSelection = NoRect,
      s.selectionPath = <<>> >>

\* C15: every SelectionManager operation that changes isConfirmed, the mode or
\* the presence of geometry invokes the change callback before it returns.
StatusChangesNotified ==
    [][SelectionStatus(sel') # SelectionStatus(sel) => notified' > 0]_vars

\* C16: a right-click while hasSelection() is false changes no field of the
\* SelectionManager and issues no notification, also during a drag.
RightClickWithoutSelection ==
    [][(lastOp' = "handleRightClick" /\ ~hasSelection(sel)) =>
          (sel' = sel /\ notified' = 0)]_vars

\* A right-click has just been ignored in the middle of a freehand drag.
RightClickWithoutSelection_Witness ==
    /\ lastOp = "handleRightClick"
    /\ notified = 0
    /\ sel.isSelecting
    /\ sel.selectionMode = "freehand"
    /\ Len(sel.selectionPath) >= 2

\* C17: with a confirmed rectangle or freehand selection, clearSelection(), a
\* right-click and setSelectionMode(any mode) each leave no geometry, no drag
\* in progress and, unless the mode is then 'full', isConfirmed false.
ConfirmedToIdle ==
    [][(/\ sel.selectionMode # "full"
        /\ hasSelection(sel)
        /\ lastOp' \in {"clearSelection", "handleRightClick", "setSelectionMode"}) =>
          /\ sel'.rectangleSelection = NoRect
          /\ sel'.selectionPath = <<>>
          /\ ~sel'.isSelecting
          /\ sel'.startPoint = NoPoint
          /\ sel'.currentPoint = NoPoint
          /\ sel'.selectionMode # "full" => ~sel'.isConfirmed]_vars

\* A right-click has just cleared a selection in rectangle mode (only a
\* right-click on a confirmed selection notifies).
ConfirmedToIdle_Witness ==
    /\ lastOp = "handleRightClick"
    /\ notified > 0
    /\ sel.selectionMode = "rectangle"
    /\ sel.rectangleSelection = NoRect
    /\ ~sel.isConfirmed

\* C18: a rectangle drag from s to c that ends with |c.x - s.x| >= 5 and
\* |c.y - s.y| >= 5 is confirmed as the rectangle
\* {min(s.x, c.x), min(s.y, c.y), |c.x - s.x|, |c.y - s.y|}; any other is
\* discarded: no rectangle, not confirmed, hasSelection() false.
RectangleDragEnd ==
    [][(DragEnd /\ sel.selectionMode = "rectangle") =>
          IF /\ Abs(sel.currentPoint.x - sel.startPoint.x) >= 5
             /\ Abs(sel.currentPoint.y - sel.startPoint.y) >= 5
          THEN /\ sel'.isConfirmed
               /\ hasSelection(sel')
               /\ sel'.rectangleSelection =
                      [x |-> Min(sel.startPoint.x, sel.currentPoint.x),
                       y |-> Min(sel.startPoint.y, sel.currentPoint.y),
                       width |-> Abs(sel.currentPoint.x - sel.startPoint.x),
                       height |-> Abs(sel.currentPoint.y - sel.startPoint.y)]
          ELSE /\ sel'.rectangleSelection = NoRect
               /\ ~sel'.isConfirmed
               /\ ~hasSelection(sel')]_vars

\* A drag towards the upper left, exactly 5 x 5, has just been confirmed.
RectangleDragEnd_Witness ==
    /\ lastOp = "handleMouseUp"
    /\ sel.selectionMode = "rectangle"
    /\ sel.isConfirmed
    /\ sel.startPoint.x > sel.currentPoint.x
    /\ sel.rectangleSelection =
           [x |-> sel.currentPoint.x, y |-> sel.currentPoint.y,
            width |-> 5, height |-> 5]

\* C19: a freehand drag records its start point and one point per move; when
\* it ends with fewer than 10 points the path is discarded and hasSelection()
\* is false, otherwise the points are kept in order, the first is appended
\* once, and the selection is confirmed.
FreehandDragEnd ==
    [][/\ (DragEnd /\ sel.selectionMode = "freehand") =>
            IF Len(sel.selectionPath) < 10
            THEN sel'.selectionPath = <<>> /\ ~hasSelection(sel')
            ELSE /\ sel'.selectionPath = sel.selectionPath \o <<sel.selectionPath[1]>>
                 /\ sel'.isConfirmed
                 /\ hasSelection(sel')
       /\ (/\ lastOp' = "handleMouseMove"
           /\ sel.isSelecting
           /\ sel.selectionMode = "freehand") =>
            /\ Len(sel'.selectionPath) = Len(sel.selectionPath) + 1
            /\ SubSeq(sel'.selectionPath, 1, Len(sel.selectionPath)) = sel.selectionPath
       /\ (/\ lastOp' = "handleMouseDown"
           /\ sel'.isSelecting
           /\ sel'.startPoint # sel.startPoint
           /\ sel.selectionMode = "freehand") =>
            sel'.selectionPath = <<sel'.startPoint>>]_vars

\* A freehand drag of exactly 10 points has just been closed and confirmed.
FreehandDragEnd_Witness ==
    /\ lastOp = "handleMouseUp"
    /\ sel.selectionMode = "freehand"
    /\ sel.isConfirmed
    /\ Len(sel.selectionPath) = 11
    /\ sel.selectionPath[11] = sel.selectionPath[1]
    /\ \A i \in 2..10 : sel.selectionPath[i] # sel.selectionPath[1]

\* C20: whatever the raster, the block size (>= 1) and the mask (or none), the
\* mosaic output has the source's width, height and buffer length, and every
\* pixel keeps its alpha byte.
MosaicKeepsShapeAndAlpha ==
    lastPass # NoPass =>
        /\ canvas.width = lastPass.source.width
        /\ canvas.height = lastPass.source.height
        /\ DOMAIN canvas.data = DOMAIN lastPass.source.data
        /\ Cardinality(DOMAIN canvas.data) = Cardinality(DOMAIN lastPass.source.data)
        /\ \A p \in 0..(canvas.width * canvas.height - 1) :
               canvas.data[4 * p + 3] = lastPass.source.data[4 * p + 3]

\* A pass with tiles of more than one pixel has just changed a raster whose
\* pixels differ in alpha.
MosaicKeepsShapeAndAlpha_Witness ==
    /\ lastPass # NoPass
    /\ lastPass.blockSize >= 2
    /\ canvas # lastPass.source
    /\ canvas.width >= 2
    /\ canvas.data[3] # canvas.data[7]

\* The pixels of the tile of the b x b grid anchored at (0, 0) that holds
\* pixel (x, y), clipped to a width x height image.
TilePixels(x, y, b, width, height) ==
    {q \in (0..(width - 1)) \X (0..(height - 1)) :
        /\ q[1] \div b = x \div b
        /\ q[2] \div b = y \div b}

\* v is an integer nearest to sum / count.
IsRoundedMean(v, sum, count) == 2 * Abs(v * count - sum) <= count

\* Channel c of pixel (x, y) of the last pass's output is the rounded mean of
\* that channel over the source pixels of the pixel's tile.
HoldsTileMean(x, y, c) ==
    LET tile == TilePixels(x, y, lastPass.blockSize, canvas.width, canvas.height)
    IN  IsRoundedMean(canvas.data[(y * canvas.width + x) * 4 + c],
                      ChannelSum(lastPass.source, tile, c), Cardinality(tile))

\* C21: without a mask, every pixel of a tile of the b x b grid anchored at
\* (0, 0) and clipped to the image has R, G and B equal to the rounded mean of
\* that channel over the in-bounds source pixels of the tile, so every tile is
\* uniform, also when the source is the output of an earlier pass.
UnmaskedTilesHoldMean ==
    (lastPass # NoPass /\ lastPass.selectionMask = Free) =>
        \A x \in 0..(canvas.width - 1) : \A y \in 0..(canvas.height - 1) :
            \A c \in 0..2 :
                /\ HoldsTileMean(x, y, c)
                /\ \A q \in TilePixels(x, y, lastPass.blockSize, canvas.width, canvas.height) :
                       canvas.data[(q[2] * canvas.width + q[1]) * 4 + c]
                           = canvas.data[(y * canvas.width + x) * 4 + c]

\* An unmasked pass with 2 x 2 tiles has run on a 3-wide raster that an
\* earlier pass had already pixelated: the last column of tiles is clipped.
UnmaskedTilesHoldMean_Witness ==
    /\ lastPass # NoPass
    /\ lastPass.selectionMask = Free
    /\ lastPass.blockSize = 2
    /\ canvas.width = 3
    /\ canvas.height = 2
    /\ lastPass.source # originalImageData
    /\ lastPass.source.data[0] = lastPass.source.data[4]
    /\ canvas.data[0] # canvas.data[8]

\* Whether the last pass's mask marks pixel (x, y) selected.
Selected(x, y) == lastPass.selectionMask.data[(y * canvas.width + x) * 4] > 127

\* Pixel (x, y) has the same four bytes in the last pass's output and source.
PixelUnchanged(x, y) ==
    \A c \in 0..3 :
        canvas.data[(y * canvas.width + x) * 4 + c]
            = lastPass.source.data[(y * canvas.width + x) * 4 + c]

\* C22: with a mask, every pixel the mask does not mark selected is
\* byte-identical in output and source, and a tile with no selected pixel is
\* unchanged as a whole.
UnselectedPixelsUnchanged ==
    (lastPass # NoPass /\ lastPass.selectionMask # Free) =>
        \A x \in 0..(canvas.width - 1) : \A y \in 0..(canvas.height - 1) :
            /\ ~Selected(x, y) => PixelUnchanged(x, y)
            /\ (\A q \in TilePixels(x, y, lastPass.blockSize, canvas.width, canvas.height) :
                    ~Selected(q[1], q[2]))
               => \A q \in TilePixels(x, y, lastPass.blockSize, canvas.width, canvas.height) :
                      PixelUnchanged(q[1], q[2])

\* A masked pass with 2 x 2 tiles has changed a 3 x 2 raster whose first tile
\* holds a selected and an unselected pixel and whose second tile holds no
\* selected pixel.
UnselectedPixelsUnchanged_Witness ==
    /\ lastPass # NoPass
    /\ lastPass.selectionMask # Free
    /\ lastPass.blockSize = 2
    /\ canvas.width = 3
    /\ canvas.height = 2
    /\ Selected(0, 0)
    /\ ~Selected(1, 0)
    /\ ~Selected(2, 0)
    /\ ~Selected(2, 1)
    /\ canvas # lastPass.source

\* C23: with a mask, every selected pixel receives the rounded mean of each
\* colour channel over all in-bounds source pixels of its tile, selected or
\* not.
SelectedPixelsHoldTileMean ==
    (lastPass # NoPass /\ lastPass.selectionMask # Free) =>
        \A x \in 0..(canvas.width - 1) : \A y \in 0..(canvas.height - 1) :
            Selected(x, y) => \A c \in 0..2 : HoldsTileMean(x, y, c)

\* A masked pass has given a selected pixel the mean of a tile that also
\* holds unselected pixels, and that mean is not the pixel's own colour.
SelectedPixelsHoldTileMean_Witness ==
    /\ lastPass # NoPass
    /\ lastPass.selectionMask # Free
    /\ lastPass.blockSize >= 2
    /\ canvas.width >= 2
    /\ Selected(0, 0)
    /\ ~Selected(1, 0)
    /\ canvas.data[0] # lastPass.source.data[0]

MaskMatchesSelection ==
    [][lastCall'.op = "createSelectionMask" =>
          /\ canvas' = canvas
          /\ originalImageData' = originalImageData
          /\ sel' = sel
          /\ lastCall'.result.width = lastCall'.width
          /\ lastCall'.result.height = lastCall'.height
          /\ \A px \in 0..(lastCall'.width - 1) : \A py \in 0..(lastCall'.height - 1) :
                LET marked == lastCall'.result.data[(py * lastCall'.width + px) * 4] > 127
                IN  /\ sel.selectionMode = "full" => marked
                    /\ (/\ sel.selectionMode = "rectangle"
                        /\ sel.isConfirmed
                        /\ sel.rectangleSelection # NoRect)
                       => (marked <=>
                              /\ sel.rectangleSelection.x <= px
                              /\ px < sel.rectangleSelection.x + sel.rectangleSelection.width
                              /\ sel.rectangleSelection.y <= py
                              /\ py < sel.rectangleSelection.y
                                          + sel.rectangleSelection.height)]_vars

\* The mask of a confirmed 5 x 5 rectangle at (1, 1), dragged from (1, 1) to
\* (6, 6) on the 6 x 6 canvas, has just been made: pixel (0, 0) is unselected,
\* pixel (1, 1) selected.
MaskMatchesSelection_Witness ==
    /\ lastCall.op = "createSelectionMask"
    /\ sel.selectionMode = "rectangle"
    /\ sel.isConfirmed
    /\ sel.rectangleSelection = [x |-> 1, y |-> 1, width |-> 5, height |-> 5]
    /\ lastCall.result.data[0] = 0
    /\ lastCall.result.data[(1 * canvas.width + 1) * 4] = 255
    /\ lastCall.result.data[(5 * canvas.width + 5) * 4] = 255

\* v is num / den where that lies in [0, bound], else the nearer of 0 and
\* bound (den > 0).
ScaledAndClamped(v, num, den, bound) ==
    IF num < 0 THEN v = 0
    ELSE IF num > bound * den THEN v = bound
    ELSE v * den = num

\* C26: for every pointer position and displayed box of positive size,
\* getCanvasPoint returns a point with 0 <= x <= canvas.width and
\* 0 <= y <= canvas.height: the pointer's offset from the box's top-left
\* scaled by canvas size / displayed size where that lies inside the bounds,
\* the nearest bound otherwise.
CanvasPointScaledAndClamped ==
    lastCall.op = "getCanvasPoint" =>
        /\ lastCall.rect.width > 0 /\ lastCall.rect.height > 0
        /\ 0 <= lastCall.result.x /\ lastCall.result.x <= canvas.width
        /\ 0 <= lastCall.result.y /\ lastCall.result.y <= canvas.height
        /\ ScaledAndClamped(lastCall.result.x,
                            (lastCall.clientX - lastCall.rect.left) * canvas.width,
                            lastCall.rect.width, canvas.width)
        /\ ScaledAndClamped(lastCall.result.y,
                            (lastCall.clientY - lastCall.rect.top) * canvas.height,
                            lastCall.rect.height, canvas.height)
        /\ sel.currentPoint = lastCall.result

\* A drag began inside the canvas shown at three times its width, at the
\* point the offset (9, 4) scales to, and has moved to a pointer right of and
\* below the canvas shown at twice its width, which is clamped to the corner.
CanvasPointScaledAndClamped_Witness ==
    /\ lastCall.op = "getCanvasPoint"
    /\ lastOp = "handleMouseMove"
    /\ sel.startPoint = [x |-> 3, y |-> 2]
    /\ lastCall.rect.left = 0
    /\ (lastCall.clientX - lastCall.rect.left) * canvas.width
           > canvas.width * lastCall.rect.width
    /\ (lastCall.clientY - lastCall.rect.top) * canvas.height
           > canvas.height * lastCall.rect.height
    /\ lastCall.result = [x |-> canvas.width, y |-> canvas.height]

\* C27: at most one mosaic pass is in flight: a processImage invocation that
\* arrives while isProcessing is true returns without changing the raster, the
\* history or the selection (and starts nothing); a pass starts only from
\* idle, sets isProcessing and yields; and the step that ends it clears
\* isProcessing and adds at most one history entry, every other entry being
\* one the history held before.
SinglePassInFlight ==
    [][/\ isProcessing <=> pc = "delay"
       /\ (isProcessing /\ ProcessClick) =>
              UNCHANGED <<canvas, history, currentIndex, heap, sel, pc, isProcessing,
                          passes, timers>>
       /\ passes' # passes =>
              /\ ~isProcessing /\ pc = "idle"
              /\ isProcessing' /\ pc' = "delay"
              /\ passes' = passes + 1
              /\ UNCHANGED <<canvas, history, currentIndex, heap, sel>>
       /\ PassCompletes =>
              /\ isProcessing /\ ~isProcessing'
              /\ passes' = passes
              /\ Len(history') <= Len(history) + 1
              /\ \A i \in 1..(Len(history') - 1) :
                     \E j \in 1..Len(history) : HistoryContents'[i] = HistoryContents[j]]_vars

\* A pass is at its yield and a drag completed meanwhile has enabled the
\* process button again, so that a click can invoke processImage.
SinglePassInFlight_Witness ==
    /\ isProcessing
    /\ pc = "delay"
    /\ ~processBtnDisabled
    /\ passes = 1
    /\ passes < MaxPasses
    /\ hasSelection(sel)
    /\ sel.selectionMode = "rectangle"

\* C28: whenever an image is loaded and no mosaic pass or deferred timer is
\* pending, the process button is enabled exactly when the mode is 'full' or
\* a confirmed rectangle/freehand selection exists (hasSelection() true).
ButtonMatchesSelection ==
    (hasImage /\ ~isProcessing /\ pc = "idle" /\ timers = 0) =>
        (~processBtnDisabled <=> (sel.selectionMode = "full" \/ hasSelection(sel)))

\* C29: the mask of a mosaic pass is the one of the selection that was
\* confirmed when processImage was invoked: whatever is delivered during the
\* pass's yield, a pass started in rectangle or freehand mode does not run
\* with a different mask, nor with none.
PassUsesInvokedSelection ==
    [][(PassCompletes /\ invoked.selectionMode \in {"rectangle", "freehand"}
                      /\ invoked.selectionMask # Free) =>
          PassMask(sel) = invoked.selectionMask]_vars

\* C30: once an image has been loaded, in every state where no handler is
\* mid-execution the displayed raster is byte-identical, dimensions
\* included, to the snapshot stored at history[currentIndex].
DisplayMatchesHistory ==
    (hasImage /\ pc = "idle") =>
        /\ currentIndex >= 0
        /\ currentIndex < Len(history)
        /\ HistoryContents[currentIndex + 1].imageData = canvas

\* C31: after a new image is loaded the history holds no snapshot of an
\* image loaded before: canUndo() is false right after the load, and the one
\* entry the history holds is the new image.
LoadForgetsEarlierImages ==
    [][LoadImage =>
          /\ ~canUndo(currentIndex')
          /\ \A i \in 1..Len(history') : HistoryContents'[i].imageData = canvas']_vars

\* C32: a drag-move in rectangle mode changes only the current point
\* (rectangleSelection and isConfirmed stay as they are); a drag-move in
\* freehand mode appends exactly one point, the new current point, to
\* selectionPath; a pointer move outside a drag, and a pointer-down with a
\* non-primary button, change no selection state and notify nobody.
MoveChangesOnlyThePoint ==
    [][/\ lastOp' = "handleMouseMove" =>
              /\ notified' = 0
              /\ ~sel.isSelecting => sel' = sel
              /\ (sel.isSelecting /\ sel.selectionMode = "rectangle") =>
                     /\ [sel' EXCEPT !.currentPoint = sel.currentPoint] = sel
                     /\ sel'.rectangleSelection = sel.rectangleSelection
                     /\ sel'.isConfirmed = sel.isConfirmed
              /\ (sel.isSelecting /\ sel.selectionMode = "freehand") =>
                     /\ sel'.selectionPath = Append(sel.selectionPath, sel'.currentPoint)
                     /\ [sel' EXCEPT !.currentPoint = sel.currentPoint,
                                     !.selectionPath = sel.selectionPath] = sel
       /\ \A ev \in SelDownEvents :
              SelApply("handleMouseDown", handleMouseDown(sel, 2, EventPoint(ev))) =>
                  (sel' = sel /\ notified' = 0)]_vars

\* A rectangle drag over a confirmed 5 x 5 rectangle has just moved to a new
\* point: the stored rectangle is still the earlier one.
MoveChangesOnlyThePoint_Witness ==
    /\ lastOp = "handleMouseMove"
    /\ sel.selectionMode = "rectangle"
    /\ sel.isSelecting
    /\ sel.currentPoint # sel.startPoint
    /\ sel.rectangleSelection = [x |-> 1, y |-> 1, width |-> 5, height |-> 5]
    /\ sel.currentPoint = [x |-> 3, y |-> 6]

\* The step in which processImage returns from a pass that did not run its
\* success branch to the end: the success branch sets the two timers
\* (app.js:308-321), every other way out leaves them alone.
PassFails == PassCompletes /\ timers' = timers

\* C33: every accepted processImage invocation eventually finishes with
\* isProcessing reset to false, whether the pass succeeds, reports failure or
\* throws; and a pass that does not succeed pushes no history entry, leaves
\* the displayed raster unchanged and leaves the selection as it was.
ProcessAlwaysFinishes ==
    /\ isProcessing ~> ~isProcessing
    /\ [][PassCompletes => ~isProcessing']_vars
    /\ [][PassFails =>
             /\ HistoryContents' = HistoryContents
             /\ currentIndex' = currentIndex
             /\ canvas' = canvas
             /\ sel' = sel]_vars

\* What the selection-change callback reads of the SelectionManager
\* (app.js:43-47: updateSelectionButtons and updateProcessButton read the mode,
\* isConfirmed and, through hasSelection(), the geometry).
Observed(s) ==
    [selectionMode |-> s.selectionMode, isConfirmed |-> s.isConfirmed,
     rectangleSelection |-> s.rectangleSelection, selectionPath |-> s.selectionPath]

\* Every callback invocation of the operation that returned r saw what the
\* operation returned with.
SeesFinalState(r) == \A i \in 1..Len(r.n) : Observed(r.n[i]) = Observed(r.s)

\* C34: every invocation of the selection-change callback during
\* setSelectionMode, clearSelection, a right-click or a drag end observes the
\* mode, isConfirmed and geometry with which that operation returns, never an
\* intermediate combination.
CallbackSeesFinalState ==
    [][/\ \A mode \in {"rectangle", "freehand", "full"} :
              SelApply("setSelectionMode", setSelectionMode(sel, mode)) =>
                  SeesFinalState(setSelectionMode(sel, mode))
       /\ \A resetToDefault \in BOOLEAN :
              SelApply("clearSelection", clearSelection(sel, resetToDefault)) =>
                  SeesFinalState(clearSelection(sel, resetToDefault))
       /\ SelRightClick => SeesFinalState(handleRightClick(sel))
       /\ \A button \in {0, 2} :
              SelApply("handleMouseUp", handleMouseUp(sel, button)) =>
                  SeesFinalState(handleMouseUp(sel, button))]_vars

\* app.js:581, :597 - the history handed undo() / redo() a snapshot.
UndoSucceeds == AppUndo /\ undo(history, currentIndex, heap).ref # NULL
RedoSucceeds == AppRedo /\ redo(history, currentIndex, heap).ref # NULL
\* app.js:581, :597 - the history returned null.
UndoRefused == AppUndo /\ undo(history, currentIndex, heap).ref = NULL
RedoRefused == AppRedo /\ redo(history, currentIndex, heap).ref = NULL

\* C35: a successful undo, redo or resetToOriginal discards any rectangle or
\* freehand selection and any drag in progress (hasSelection() false,
\* isSelecting false) and leaves selectionMode unchanged; an undo or redo for
\* which the history returns null leaves the selection, the displayed raster
\* and the history untouched.
HistoryMoveDiscardsSelection ==
    [][/\ (UndoSucceeds \/ RedoSucceeds \/ AppReset) =>
              /\ sel'.selectionMode = sel.selectionMode
              /\ ~sel'.isSelecting
              /\ sel'.rectangleSelection = NoRect
              /\ sel'.selectionPath = <<>>
              /\ sel.selectionMode # "full" => ~hasSelection(sel')
       /\ (UndoRefused \/ RedoRefused) =>
              /\ sel' = sel
              /\ canvas' = canvas
              /\ HistoryContents' = HistoryContents
              /\ currentIndex' = currentIndex]_vars

\* An undo has just succeeded in freehand mode: the mode is kept, nothing is
\* selected and no drag is in progress.
HistoryMoveDiscardsSelection_Witness ==
    /\ beforeUndo # NoUndo
    /\ sel.selectionMode = "freehand"
    /\ ~sel.isSelecting
    /\ ~hasSelection(sel)

\* C36: the unmasked mosaic is idempotent for a fixed block size: applying it
\* with block size b to the result of an unmasked mosaic with b yields a
\* byte-identical raster.
UnmaskedMosaicIdempotent ==
    (lastOp = "applyMosaic" /\ lastPass.selectionMask = Free) =>
        _processMosaic(canvas, lastPass.blockSize) = canvas

\* An unmasked pass over several tiles, the last one clipped, changed the
\* raster.
UnmaskedMosaicIdempotent_Witness ==
    /\ lastOp = "applyMosaic"
    /\ lastPass.selectionMask = Free
    /\ lastPass.blockSize = 2
    /\ canvas.width = 3
    /\ canvas.height = 2
    /\ canvas # lastPass.source

\* ceil(a / b) for a >= 0, b >= 1.
CeilDiv(a, b) == (a + b - 1) \div b

\* The blocks the pass recorded in lastPass visited.
PassTiles ==
    TileVisits(0, 0, lastPass.blockSize, lastPass.source.width, lastPass.source.height)

\* C37: for a block size b >= 1 and a W x H raster, the loops of the masked
\* and of the unmasked pass end after visiting exactly ceil(W/b) * ceil(H/b)
\* tiles, and the tiles partition the raster: every pixel lies in exactly one
\* tile, so it enters one mean and is written at most once.  The pass's result
\* is the loop body run once on each of these tiles in order.
TilesPartitionRaster ==
    lastOp = "applyMosaic" =>
        /\ Len(PassTiles) = CeilDiv(lastPass.source.width, lastPass.blockSize)
                             * CeilDiv(lastPass.source.height, lastPass.blockSize)
        /\ \A x \in 0..(lastPass.source.width - 1) :
               \A y \in 0..(lastPass.source.height - 1) :
                   Cardinality({i \in 1..Len(PassTiles) :
                                  InBlock(x, y, PassTiles[i][1], PassTiles[i][2],
                                          lastPass.blockSize, lastPass.source.width,
                                          lastPass.source.height)}) = 1
        /\ canvas.data =
               ApplyTiles(lastPass.source.data,
                          IF lastPass.selectionMask = Free THEN <<>>
                          ELSE lastPass.selectionMask.data,
                          lastPass.selectionMask # Free, PassTiles, 1,
                          lastPass.blockSize, lastPass.source.width,
                          lastPass.source.height)

\* A masked pass with block size 2 over a 3 x 2 raster: two tiles, the second
\* clipped at the right edge.
TilesPartitionRaster_Witness ==
    /\ lastOp = "applyMosaic"
    /\ lastPass.selectionMask # Free
    /\ lastPass.blockSize = 2
    /\ lastPass.source.width = 3
    /\ lastPass.source.height = 2
    /\ PassTiles = <<(<<0, 0>>), (<<2, 0>>)>>
    /\ canvas # lastPass.source

\* C38: saveState is all-or-nothing: when cloning the given raster fails (the
\* error is caught, nothing is pushed) the history entries and currentIndex
\* are exactly as before the call, so a redo branch that was available is
\* still available.
FailedSaveChangesNothing ==
    [][lastOp' = "saveStateFailed" =>
           /\ HistoryContents' = HistoryContents
           /\ currentIndex' = currentIndex
           /\ canRedo(history, currentIndex) => canRedo(history', currentIndex')]_vars

\* C39: optimize(keepCount) with 1 <= keepCount < history.length keeps exactly
\* the keepCount most recent entries in their order and leaves currentIndex
\* referring to the snapshot it referred to before the call (the entry that
\* was at currentIndex is the one at the new currentIndex).
OptimizeKeepsCurrentSnapshot ==
    [][\A keepCount \in 1..(Len(history) - 1) :
           (lastOp' = "optimize" /\ Len(history') = keepCount) =>
               /\ HistoryContents' = LastN(HistoryContents, keepCount)
               /\ currentIndex' = currentIndex - (Len(history) - keepCount)
               /\ currentIndex' >= 0
               /\ HistoryContents'[currentIndex' + 1] = HistoryContents[currentIndex + 1]]_vars

====
